---- MODULE Spec2Model ----
(***************************************************************************)
(* Aqualura: the in-memory store, the aquarium service, the user service   *)
(* and the calculation service (bio-load, compatibility, care tasks).      *)
(*                                                                         *)
(* Time is counted in whole hours since the epoch, in UTC.  An identifier   *)
(* produced by crypto.randomUUID() is a pair <<n, k>>: n is the value of a  *)
(* counter that every creating call advances, k is 0 for a tank or a stock *)
(* entry and the template's index for the tasks one merge creates.         *)
(* Text-only fields (names, titles, descriptions, messages' wording) and   *)
(* the updatedAt stamps are not part of the model.                         *)
(*                                                                         *)
(* Spec is the services over the store.  PureSpec applies the bio-load      *)
(* evaluator and the compatibility scanner to an aquarium and a stock list *)
(* drawn from bounded sets.  An operator marked "faulty variant" is not     *)
(* part of either: it is a seeded fault a property has to detect.          *)
(***************************************************************************)
EXTENDS Integers, Sequences, FiniteSets, TLC

\* ------------------------------------------------------------------ bounds
MaxTime == 82
MaxIds == 4
MaxQuantity == 1
MaxStockLen == 2
MaxProbeQuantity == 2
MaxProbeLen == 2
MaxLimit == 2

\* ------------------------------------------------------- program constants
HoursPerDay == 24
undefined == -1
freeAquariumLimit == 1

\* --------------------------------------------------------------- utilities
\* Array.prototype.findIndex with -1 written as 0
FindIndex(s, Test(_)) ==
  IF \E i \in DOMAIN s : Test(s[i])
  THEN CHOOSE i \in DOMAIN s : Test(s[i]) /\ \A j \in 1..(i - 1) : ~Test(s[j])
  ELSE 0

\* Map.prototype.get(key) ?? fallback
GetOr(map, key, fallback) == IF key \in DOMAIN map THEN map[key] ELSE fallback

\* Map.prototype.set
MapSet(map, key, value) ==
  [k \in DOMAIN map \cup {key} |-> IF k = key THEN value ELSE map[k]]

\* Map.prototype.delete
MapDelete(map, key) == [k \in DOMAIN map \ {key} |-> map[k]]

\* Faulty variant of MathRound: the quotient is truncated
MathTrunc(num, den) == num \div den

\* Math.round of the non-negative rational num / den (den > 0): halves go up
MathRound(num, den) == (2 * num + den) \div (2 * den)

\* Number(x.toFixed(1)) of a value given in hundredths, back in hundredths
toFixed1(hundredths) == ((hundredths + 5) \div 10) * 10

\* ------------------------------------------------------------- static data
BehaviorCategories ==
  {"peaceful", "semi_aggressive", "aggressive", "predator", "bottom_dweller", "schooling"}

behaviorMatrix ==
  [b \in BehaviorCategories |->
    CASE b = "peaceful" ->
           [incompatibleWith |-> {"aggressive", "predator"}, cautionWith |-> {"semi_aggressive"}]
      [] b = "semi_aggressive" ->
           [incompatibleWith |-> {"predator"}, cautionWith |-> {"peaceful", "schooling"}]
      [] b = "aggressive" ->
           [incompatibleWith |-> {"peaceful", "schooling", "bottom_dweller"},
            cautionWith |-> {"semi_aggressive"}]
      [] b = "predator" ->
           [incompatibleWith |-> {"peaceful", "schooling", "bottom_dweller"},
            cautionWith |-> {"semi_aggressive"}]
      [] b = "bottom_dweller" ->
           [incompatibleWith |-> {}, cautionWith |-> {"aggressive", "predator"}]
      [] b = "schooling" ->
           [incompatibleWith |-> {"aggressive", "predator"}, cautionWith |-> {"semi_aggressive"}]]

SpeciesIds ==
  {"neon_tetra", "guppy", "angelfish", "betta", "corydoras",
   "discus", "oscar", "goldfish", "molly", "pleco"}

fishSpeciesCatalog ==
  [s \in SpeciesIds |->
    CASE s = "neon_tetra" -> [id |-> s, recommendedVolumePerFish |-> 4, behavior |-> "schooling"]
      [] s = "guppy" -> [id |-> s, recommendedVolumePerFish |-> 5, behavior |-> "peaceful"]
      [] s = "angelfish" ->
           [id |-> s, recommendedVolumePerFish |-> 20, behavior |-> "semi_aggressive"]
      [] s = "betta" -> [id |-> s, recommendedVolumePerFish |-> 15, behavior |-> "aggressive"]
      [] s = "corydoras" ->
           [id |-> s, recommendedVolumePerFish |-> 8, behavior |-> "bottom_dweller"]
      [] s = "discus" -> [id |-> s, recommendedVolumePerFish |-> 40, behavior |-> "peaceful"]
      [] s = "oscar" -> [id |-> s, recommendedVolumePerFish |-> 100, behavior |-> "predator"]
      [] s = "goldfish" -> [id |-> s, recommendedVolumePerFish |-> 40, behavior |-> "peaceful"]
      [] s = "molly" -> [id |-> s, recommendedVolumePerFish |-> 10, behavior |-> "peaceful"]
      [] s = "pleco" ->
           [id |-> s, recommendedVolumePerFish |-> 20, behavior |-> "bottom_dweller"]]

\* store.fishSpecies.get(speciesId) is defined
hasFish(speciesId) == speciesId \in DOMAIN fishSpeciesCatalog

\* store.fishSpecies.get(speciesId), where it is defined
findFish(speciesId) == fishSpeciesCatalog[speciesId]

baseTasks ==
  << [type |-> "feeding", requiresMeasurement |-> FALSE, measurementKeys |-> <<>>],
     [type |-> "observe", requiresMeasurement |-> FALSE, measurementKeys |-> <<>>],
     [type |-> "water_change", requiresMeasurement |-> FALSE, measurementKeys |-> <<>>],
     [type |-> "test_no3", requiresMeasurement |-> TRUE, measurementKeys |-> <<"NO3">>],
     [type |-> "test_no2", requiresMeasurement |-> TRUE, measurementKeys |-> <<"NO2">>],
     [type |-> "test_ph", requiresMeasurement |-> TRUE, measurementKeys |-> <<"pH">>],
     [type |-> "test_gh", requiresMeasurement |-> TRUE, measurementKeys |-> <<"GH">>],
     [type |-> "test_kh", requiresMeasurement |-> TRUE, measurementKeys |-> <<"KH">>],
     [type |-> "test_ta", requiresMeasurement |-> TRUE, measurementKeys |-> <<"TA">>],
     [type |-> "test_cl2", requiresMeasurement |-> TRUE, measurementKeys |-> <<"Cl2">>] >>

CareTaskTypes == {baseTasks[i].type : i \in DOMAIN baseTasks}

AquariumStatusLevels == {"comfort", "elevated", "critical"}

intervalMatrix ==
  [s \in AquariumStatusLevels |->
    CASE s = "comfort" ->
           [water_change |-> 14, feeding |-> 1, observe |-> 1, test_no3 |-> 14,
            test_no2 |-> 14, test_ph |-> 14, test_gh |-> 28, test_kh |-> 21,
            test_ta |-> 21, test_cl2 |-> 30]
      [] s = "elevated" ->
           [water_change |-> 7, feeding |-> 1, observe |-> 1, test_no3 |-> 7,
            test_no2 |-> 7, test_ph |-> 7, test_gh |-> 21, test_kh |-> 14,
            test_ta |-> 14, test_cl2 |-> 21]
      [] s = "critical" ->
           [water_change |-> 3, feeding |-> 1, observe |-> 1, test_no3 |-> 3,
            test_no2 |-> 3, test_ph |-> 3, test_gh |-> 7, test_kh |-> 7,
            test_ta |-> 7, test_cl2 |-> 10]]

\* ------------------------------------------------------------------- dates
\* date-fns addDays
addDays(date, amount) == date + amount * HoursPerDay

\* date-fns differenceInCalendarDays(left, right): start-of-day difference
differenceInCalendarDays(left, right) == (left \div HoursPerDay) - (right \div HoursPerDay)

\* date-fns isAfter
isAfter(date, dateToCompare) == date > dateToCompare

preferredHour(preference) ==
  CASE preference = "morning" -> 9
    [] preference = "evening" -> 19
    [] OTHER -> 12

\* addDays(new Date(), offsetDays) with the time of day set to the preferred hour
normalizeDueDate(clock, offsetDays, preference) ==
  (addDays(clock, offsetDays) \div HoursPerDay) * HoursPerDay + preferredHour(preference)

\* ----------------------------------------------------- calculation service
\* Faulty variant of updateTaskStatus: a task is late only from the calendar
\* day after its due date
updateTaskStatusByCalendarDay(task, clock) ==
  LET due == task.nextDueAt IN
  IF task.status = "completed"
  THEN IF differenceInCalendarDays(clock, due) >= task.intervalDays
       THEN [task EXCEPT !.status = "active",
                         !.nextDueAt = addDays(due, task.intervalDays)]
       ELSE task
  ELSE IF differenceInCalendarDays(clock, due) > 0 /\ task.status # "overdue"
       THEN [task EXCEPT !.status = "overdue"]
       ELSE IF ~isAfter(clock, due) /\ task.status = "overdue"
            THEN [task EXCEPT !.status = "active"]
            ELSE task

\* Faulty variant of updateTaskStatus: an overdue task is rolled forward as a
\* completed one is
updateTaskStatusRollingOverdue(task, clock) ==
  LET due == task.nextDueAt IN
  IF task.status # "active"
  THEN IF differenceInCalendarDays(clock, due) >= task.intervalDays
       THEN [task EXCEPT !.status = "active",
                         !.nextDueAt = addDays(due, task.intervalDays)]
       ELSE task
  ELSE IF isAfter(clock, due) /\ task.status # "overdue"
       THEN [task EXCEPT !.status = "overdue"]
       ELSE IF ~isAfter(clock, due) /\ task.status = "overdue"
            THEN [task EXCEPT !.status = "active"]
            ELSE task

\* Faulty variant of updateTaskStatus: a completed task whose due date has passed
\* is treated as an active one, and turns overdue
updateTaskStatusLateWhenCompleted(task, clock) ==
  LET due == task.nextDueAt IN
  IF task.status = "completed" /\ differenceInCalendarDays(clock, due) >= task.intervalDays
  THEN [task EXCEPT !.status = "active",
                    !.nextDueAt = addDays(due, task.intervalDays)]
  ELSE IF isAfter(clock, due) /\ task.status # "overdue"
       THEN [task EXCEPT !.status = "overdue"]
       ELSE IF ~isAfter(clock, due) /\ task.status = "overdue"
            THEN [task EXCEPT !.status = "active"]
            ELSE task

\* One evaluation of the status transition rule, reading the clock once.
updateTaskStatus(task, clock) ==
  LET due == task.nextDueAt IN
  IF task.status = "completed"
  THEN IF differenceInCalendarDays(clock, due) >= task.intervalDays
       THEN [task EXCEPT !.status = "active",
                         !.nextDueAt = addDays(due, task.intervalDays)]
       ELSE task
  ELSE IF isAfter(clock, due) /\ task.status # "overdue"
       THEN [task EXCEPT !.status = "overdue"]
       ELSE IF ~isAfter(clock, due) /\ task.status = "overdue"
            THEN [task EXCEPT !.status = "active"]
            ELSE task

\* Faulty variant of existingTaskIndex: no existing task is ever found
noExistingTask(existing, type) == 0

\* existing.find((task) => task.type === type), as an index (0: none)
existingTaskIndex(existing, type) == FindIndex(existing, LAMBDA task : task.type = type)

\* crypto.randomUUID() for a tank or a stock entry
randomUUID(uuid) == <<uuid, 0>>

\* Some template has no existing task: the merge calls randomUUID()
createsTasks(existing) ==
  \E k \in DOMAIN baseTasks : existingTaskIndex(existing, baseTasks[k].type) = 0

\* The body of baseTasks.map in mergeCareTasks, for the template at index k
mergeTemplate(existing, k, aquarium, user, desiredStatus, clock, uuid) ==
  LET template == baseTasks[k]
      idx == existingTaskIndex(existing, template.type)
      intervalDays == intervalMatrix[desiredStatus][template.type]
      taskChannel ==
        IF template.type = "feeding" /\ user.notificationSettings.muteFeedingReminders
        THEN "off"
        ELSE user.notificationSettings.channel
  IN IF idx # 0
     THEN updateTaskStatus(
            [existing[idx] EXCEPT !.requiresMeasurement = template.requiresMeasurement,
                                  !.intervalDays = intervalDays,
                                  !.channel = taskChannel],
            clock)
     ELSE [id |-> <<uuid, k>>,
           aquariumId |-> aquarium.id,
           type |-> template.type,
           intervalDays |-> intervalDays,
           nextDueAt |->
             normalizeDueDate(
               clock,
               IF template.type = "feeding" \/ template.type = "observe" THEN 0 ELSE 1,
               user.notificationSettings.preferredTime),
           lastCompletedAt |-> undefined,
           status |-> "active",
           channel |-> taskChannel,
           requiresMeasurement |-> template.requiresMeasurement,
           parameters |->
             [i \in DOMAIN template.measurementKeys |->
                [parameter |-> template.measurementKeys[i], value |-> 0]],
           createdAt |-> clock]

\* Faulty variant of mergeCareTasks: the merged tasks are appended to the stored ones
mergeCareTasksAppending(S, aquarium, user, desiredStatus, clock) ==
  LET existing == GetOr(S.careTasks, aquarium.id, <<>>)
      nextTasks ==
        [k \in DOMAIN baseTasks |->
           mergeTemplate(existing, k, aquarium, user, desiredStatus, clock, S.uuid)]
  IN existing \o [k \in DOMAIN nextTasks |-> updateTaskStatus(nextTasks[k], clock)]

\* Faulty variant of mergeCareTasks: the completion history of a task is rebuilt
mergeCareTasksResettingHistory(S, aquarium, user, desiredStatus, clock) ==
  LET existing == GetOr(S.careTasks, aquarium.id, <<>>)
      nextTasks ==
        [k \in DOMAIN baseTasks |->
           mergeTemplate(existing, k, aquarium, user, desiredStatus, clock, S.uuid)]
  IN [k \in DOMAIN nextTasks |->
        [updateTaskStatus(nextTasks[k], clock) EXCEPT
           !.lastCompletedAt = undefined,
           !.parameters = [i \in DOMAIN @ |-> [@[i] EXCEPT !.value = 0]]]]

mergeCareTasks(S, aquarium, user, desiredStatus, clock) ==
  LET existing == GetOr(S.careTasks, aquarium.id, <<>>)
      nextTasks ==
        [k \in DOMAIN baseTasks |->
           mergeTemplate(existing, k, aquarium, user, desiredStatus, clock, S.uuid)]
  IN [k \in DOMAIN nextTasks |-> updateTaskStatus(nextTasks[k], clock)]

\* The advance of the identifier counter one mergeCareTasks makes
newTaskCount(S, aquariumId) ==
  IF createsTasks(GetOr(S.careTasks, aquariumId, <<>>)) THEN 1 ELSE 0

RECURSIVE requiredVolumeOf(_)
requiredVolumeOf(stock) ==
  IF stock = <<>>
  THEN 0
  ELSE (IF hasFish(Head(stock).speciesId)
        THEN Head(stock).quantity * findFish(Head(stock).speciesId).recommendedVolumePerFish
        ELSE 0)
       + requiredVolumeOf(Tail(stock))

\* Faulty variant of bioLoadStatus: the thresholds are inclusive
bioLoadStatusInclusive(percentage) ==
  IF percentage >= 100 THEN "critical"
  ELSE IF percentage >= 60 THEN "elevated"
  ELSE "comfort"

bioLoadStatus(percentage) ==
  IF percentage > 100 THEN "critical"
  ELSE IF percentage > 60 THEN "elevated"
  ELSE "comfort"

summarizeBioLoad(aquarium, stock) ==
  LET requiredVolume == requiredVolumeOf(stock)
      percentage ==
        IF aquarium.volumeLiters = 0
        THEN 0
        ELSE MathRound(requiredVolume * 100, aquarium.volumeLiters)
  IN [requiredVolumeLiters |-> toFixed1(requiredVolume * 100) \div 100,
      percentage |-> percentage,
      status |-> bioLoadStatus(percentage)]

\* Faulty variant of pairWarnings: the first species' row is read whole, conflicts
\* and cautions, before the second species' row
pairWarningsRowByRow(first, second) ==
  IF ~hasFish(first.speciesId) \/ ~hasFish(second.speciesId)
  THEN <<>>
  ELSE LET speciesA == findFish(first.speciesId)
           speciesB == findFish(second.speciesId)
           behaviorA == behaviorMatrix[speciesA.behavior]
           behaviorB == behaviorMatrix[speciesB.behavior]
           warning(message) ==
             << [speciesAId |-> speciesA.id, speciesBId |-> speciesB.id,
                 message |-> message] >>
       IN IF speciesB.behavior \in behaviorA.incompatibleWith
          THEN warning("conflict_a_b")
          ELSE IF speciesB.behavior \in behaviorA.cautionWith
               THEN warning("caution_a_b")
               ELSE IF speciesA.behavior \in behaviorB.incompatibleWith
                    THEN warning("conflict_b_a")
                    ELSE IF speciesA.behavior \in behaviorB.cautionWith
                         THEN warning("caution_b_a")
                         ELSE <<>>

\* Faulty variant of pairWarnings: only the first species' table row is read
pairWarningsOneWay(first, second) ==
  IF ~hasFish(first.speciesId) \/ ~hasFish(second.speciesId)
  THEN <<>>
  ELSE LET speciesA == findFish(first.speciesId)
           speciesB == findFish(second.speciesId)
           behaviorA == behaviorMatrix[speciesA.behavior]
           warning(message) ==
             << [speciesAId |-> speciesA.id, speciesBId |-> speciesB.id,
                 message |-> message] >>
       IN IF speciesB.behavior \in behaviorA.incompatibleWith
          THEN warning("conflict_a_b")
          ELSE IF speciesB.behavior \in behaviorA.cautionWith
               THEN warning("caution_a_b")
               ELSE <<>>

\* One iteration of the inner loop of evaluateCompatibility: the warnings pushed
\* for the pair (first, second), first standing before second in the stock list
pairWarnings(first, second) ==
  IF ~hasFish(first.speciesId) \/ ~hasFish(second.speciesId)
  THEN <<>>
  ELSE LET speciesA == findFish(first.speciesId)
           speciesB == findFish(second.speciesId)
           behaviorA == behaviorMatrix[speciesA.behavior]
           behaviorB == behaviorMatrix[speciesB.behavior]
           warning(message) ==
             << [speciesAId |-> speciesA.id, speciesBId |-> speciesB.id,
                 message |-> message] >>
       IN IF speciesB.behavior \in behaviorA.incompatibleWith
          THEN warning("conflict_a_b")
          ELSE IF speciesA.behavior \in behaviorB.incompatibleWith
               THEN warning("conflict_b_a")
               ELSE IF speciesB.behavior \in behaviorA.cautionWith
                    THEN warning("caution_a_b")
                    ELSE IF speciesA.behavior \in behaviorB.cautionWith
                         THEN warning("caution_b_a")
                         ELSE <<>>

RECURSIVE scanPairs(_, _, _)
scanPairs(stock, i, j) ==
  IF i > Len(stock)
  THEN <<>>
  ELSE IF j > Len(stock)
       THEN scanPairs(stock, i + 1, i + 2)
       ELSE pairWarnings(stock[i], stock[j]) \o scanPairs(stock, i, j + 1)

evaluateCompatibility(stock) ==
  LET warnings == scanPairs(stock, 1, 2)
  IN [status |-> IF Len(warnings) = 0 THEN "ok" ELSE "warn", warnings |-> warnings]

\* Faulty variant of recalculateAquariumInsights: the intervals are taken from the
\* status the tank held before the pass
recalculateWithPriorStatus(S, aquarium, user, clock) ==
  LET stock == GetOr(S.aquariumStock, aquarium.id, <<>>)
      bioLoad == summarizeBioLoad(aquarium, stock)
      compatibility == evaluateCompatibility(stock)
      updatedAquarium ==
        [aquarium EXCEPT !.status = bioLoad.status,
                         !.bioLoadPercentage = bioLoad.percentage,
                         !.requiredVolumeLiters = bioLoad.requiredVolumeLiters,
                         !.compatibilityStatus = compatibility.status,
                         !.warnings = compatibility.warnings,
                         !.lastCalculatedAt = clock]
      S1 == [S EXCEPT !.aquariums = MapSet(@, updatedAquarium.id, updatedAquarium)]
  IN IF Len(stock) > 0
     THEN [S1 EXCEPT
             !.careTasks =
               MapSet(@, updatedAquarium.id,
                      mergeCareTasks(S1, updatedAquarium, user, aquarium.status, clock)),
             !.uuid = @ + newTaskCount(S1, updatedAquarium.id)]
     ELSE [S1 EXCEPT !.careTasks = MapSet(@, updatedAquarium.id, <<>>)]

\* Faulty variant of recalculateAquariumInsights: the task list of a tank without
\* stock is left as it is
recalculateKeepingTasks(S, aquarium, user, clock) ==
  LET stock == GetOr(S.aquariumStock, aquarium.id, <<>>)
      bioLoad == summarizeBioLoad(aquarium, stock)
      compatibility == evaluateCompatibility(stock)
      updatedAquarium ==
        [aquarium EXCEPT !.status = bioLoad.status,
                         !.bioLoadPercentage = bioLoad.percentage,
                         !.requiredVolumeLiters = bioLoad.requiredVolumeLiters,
                         !.compatibilityStatus = compatibility.status,
                         !.warnings = compatibility.warnings,
                         !.lastCalculatedAt = clock]
      S1 == [S EXCEPT !.aquariums = MapSet(@, updatedAquarium.id, updatedAquarium)]
  IN IF Len(stock) > 0
     THEN [S1 EXCEPT
             !.careTasks =
               MapSet(@, updatedAquarium.id,
                      mergeCareTasks(S1, updatedAquarium, user, bioLoad.status, clock)),
             !.uuid = @ + newTaskCount(S1, updatedAquarium.id)]
     ELSE S1

recalculateAquariumInsights(S, aquarium, user, clock) ==
  LET stock == GetOr(S.aquariumStock, aquarium.id, <<>>)
      bioLoad == summarizeBioLoad(aquarium, stock)
      compatibility == evaluateCompatibility(stock)
      updatedAquarium ==
        [aquarium EXCEPT !.status = bioLoad.status,
                         !.bioLoadPercentage = bioLoad.percentage,
                         !.requiredVolumeLiters = bioLoad.requiredVolumeLiters,
                         !.compatibilityStatus = compatibility.status,
                         !.warnings = compatibility.warnings,
                         !.lastCalculatedAt = clock]
      S1 == [S EXCEPT !.aquariums = MapSet(@, updatedAquarium.id, updatedAquarium)]
  IN IF Len(stock) > 0
     THEN [S1 EXCEPT
             !.careTasks =
               MapSet(@, updatedAquarium.id,
                      mergeCareTasks(S1, updatedAquarium, user, bioLoad.status, clock)),
             !.uuid = @ + newTaskCount(S1, updatedAquarium.id)]
     ELSE [S1 EXCEPT !.careTasks = MapSet(@, updatedAquarium.id, <<>>)]

\* The same pass with every new Date() it makes told apart. reads names the
\* clock values in the order the pass reads them: calculated (lastCalculatedAt in
\* recalculateAquariumInsights), merged (updatedAt in mergeCareTasks, the createdAt
\* of new tasks), mapped (normalizeDueDate and updateTaskStatus inside
\* baseTasks.map) and settled (updateTaskStatus in nextTasks.map). The operators
\* above are this pass with the four reads equal.
mergeTemplateReading(existing, k, aquarium, user, desiredStatus, reads, uuid) ==
  LET template == baseTasks[k]
      idx == existingTaskIndex(existing, template.type)
      intervalDays == intervalMatrix[desiredStatus][template.type]
      taskChannel ==
        IF template.type = "feeding" /\ user.notificationSettings.muteFeedingReminders
        THEN "off"
        ELSE user.notificationSettings.channel
  IN IF idx # 0
     THEN updateTaskStatus(
            [existing[idx] EXCEPT !.requiresMeasurement = template.requiresMeasurement,
                                  !.intervalDays = intervalDays,
                                  !.channel = taskChannel],
            reads.mapped)
     ELSE [id |-> <<uuid, k>>,
           aquariumId |-> aquarium.id,
           type |-> template.type,
           intervalDays |-> intervalDays,
           nextDueAt |->
             normalizeDueDate(
               reads.mapped,
               IF template.type = "feeding" \/ template.type = "observe" THEN 0 ELSE 1,
               user.notificationSettings.preferredTime),
           lastCompletedAt |-> undefined,
           status |-> "active",
           channel |-> taskChannel,
           requiresMeasurement |-> template.requiresMeasurement,
           parameters |->
             [i \in DOMAIN template.measurementKeys |->
                [parameter |-> template.measurementKeys[i], value |-> 0]],
           createdAt |-> reads.merged]

mergeCareTasksReading(S, aquarium, user, desiredStatus, reads) ==
  LET existing == GetOr(S.careTasks, aquarium.id, <<>>)
      nextTasks ==
        [k \in DOMAIN baseTasks |->
           mergeTemplateReading(existing, k, aquarium, user, desiredStatus, reads, S.uuid)]
  IN [k \in DOMAIN nextTasks |-> updateTaskStatus(nextTasks[k], reads.settled)]

recalculateReading(S, aquarium, user, reads) ==
  LET stock == GetOr(S.aquariumStock, aquarium.id, <<>>)
      bioLoad == summarizeBioLoad(aquarium, stock)
      compatibility == evaluateCompatibility(stock)
      updatedAquarium ==
        [aquarium EXCEPT !.status = bioLoad.status,
                         !.bioLoadPercentage = bioLoad.percentage,
                         !.requiredVolumeLiters = bioLoad.requiredVolumeLiters,
                         !.compatibilityStatus = compatibility.status,
                         !.warnings = compatibility.warnings,
                         !.lastCalculatedAt = reads.calculated]
      S1 == [S EXCEPT !.aquariums = MapSet(@, updatedAquarium.id, updatedAquarium)]
  IN IF Len(stock) > 0
     THEN [S1 EXCEPT
             !.careTasks =
               MapSet(@, updatedAquarium.id,
                      mergeCareTasksReading(S1, updatedAquarium, user, bioLoad.status, reads)),
             !.uuid = @ + newTaskCount(S1, updatedAquarium.id)]
     ELSE [S1 EXCEPT !.careTasks = MapSet(@, updatedAquarium.id, <<>>)]

\* -------------------------------------------------------- aquarium service
\* What a service call gives back: the store it leaves and its outcome
\* ("ok": a record is returned, "null": not found, "throw": an Error is thrown)
Outcome(S, result) == [S |-> S, result |-> result]

\* Faulty variant of notOwned: the owner of the tank is not compared with the caller
notOwnedMissingOnly(S, userId, aquariumId) == aquariumId \notin DOMAIN S.aquariums

\* !aquarium || aquarium.userId !== userId
notOwned(S, userId, aquariumId) ==
  aquariumId \notin DOMAIN S.aquariums \/ S.aquariums[aquariumId].userId # userId

\* The tank with its details, or null; the store is read only
getAquarium(S, userId, aquariumId) ==
  IF notOwned(S, userId, aquariumId) THEN Outcome(S, "null") ELSE Outcome(S, "ok")

\* The tanks of a user with their details, by tank id: the tank record, its
\* stock list and its task list ([] for a tank without a list); the store is
\* read only
getUserAquariums(S, userId) ==
  [a \in {b \in DOMAIN S.aquariums : S.aquariums[b].userId = userId} |->
     [aquarium |-> S.aquariums[a],
      species |-> IF a \in DOMAIN S.aquariumStock THEN S.aquariumStock[a] ELSE <<>>,
      careTasks |-> IF a \in DOMAIN S.careTasks THEN S.careTasks[a] ELSE <<>>]]

\* getUserAquariums(userId).length
userAquariumCount(S, userId) ==
  Cardinality({a \in DOMAIN S.aquariums : S.aquariums[a].userId = userId})

\* Faulty variant of limitReached: one tank more than the limit is let through
limitExceeded(S, user) == userAquariumCount(S, user.id) > user.subscription.aquariumLimit

\* Faulty variant of limitReached: the limit is not looked at
limitNeverReached(S, user) == FALSE

\* ensureWithinLimit(user) throws
limitReached(S, user) == userAquariumCount(S, user.id) >= user.subscription.aquariumLimit

createAquarium(S, user, input, clock) ==
  IF limitReached(S, user)
  THEN Outcome(S, "throw")
  ELSE IF ~(input.volumeLiters > 0)
       THEN Outcome(S, "throw")
       ELSE LET aquarium ==
                  [id |-> randomUUID(S.uuid),
                   userId |-> user.id,
                   volumeLiters |-> input.volumeLiters,
                   status |-> "comfort",
                   compatibilityStatus |-> "ok",
                   bioLoadPercentage |-> 0,
                   requiredVolumeLiters |-> 0,
                   warnings |-> <<>>,
                   lastCalculatedAt |-> undefined]
            IN Outcome([S EXCEPT !.uuid = @ + 1,
                                 !.aquariums = MapSet(@, aquarium.id, aquarium),
                                 !.aquariumStock = MapSet(@, aquarium.id, <<>>),
                                 !.careTasks = MapSet(@, aquarium.id, <<>>)],
                       "ok")

\* Faulty variant of updateAquarium: the record is stored and no pass is run
updateAquariumWithoutRecalculation(S, user, aquariumId, input, clock) ==
  IF notOwned(S, user.id, aquariumId)
  THEN Outcome(S, "null")
  ELSE IF input.volumeLiters # undefined /\ ~(input.volumeLiters > 0)
       THEN Outcome(S, "throw")
       ELSE LET aquarium == S.aquariums[aquariumId]
                updated ==
                  [aquarium EXCEPT
                     !.volumeLiters =
                       IF input.volumeLiters # undefined THEN input.volumeLiters ELSE @]
            IN Outcome([S EXCEPT !.aquariums = MapSet(@, updated.id, updated)], "ok")

\* input.volumeLiters = undefined: the payload names no volume
updateAquarium(S, user, aquariumId, input, clock) ==
  IF notOwned(S, user.id, aquariumId)
  THEN Outcome(S, "null")
  ELSE IF input.volumeLiters # undefined /\ ~(input.volumeLiters > 0)
       THEN Outcome(S, "throw")
       ELSE LET aquarium == S.aquariums[aquariumId]
                updated ==
                  [aquarium EXCEPT
                     !.volumeLiters =
                       IF input.volumeLiters # undefined THEN input.volumeLiters ELSE @]
                S1 == [S EXCEPT !.aquariums = MapSet(@, updated.id, updated)]
            IN Outcome(recalculateAquariumInsights(S1, updated, user, clock), "ok")

\* Faulty variant of deleteAquarium: the task list of the tank is left behind
deleteAquariumKeepingTasks(S, userId, aquariumId) ==
  IF notOwned(S, userId, aquariumId)
  THEN Outcome(S, "null")
  ELSE Outcome([S EXCEPT !.aquariums = MapDelete(@, aquariumId),
                         !.aquariumStock = MapDelete(@, aquariumId)],
               "ok")

deleteAquarium(S, userId, aquariumId) ==
  IF notOwned(S, userId, aquariumId)
  THEN Outcome(S, "null")
  ELSE Outcome([S EXCEPT !.aquariums = MapDelete(@, aquariumId),
                         !.aquariumStock = MapDelete(@, aquariumId),
                         !.careTasks = MapDelete(@, aquariumId)],
               "ok")

\* Faulty variant of addFishToAquarium: an entry is appended for every add, also
\* for a species the tank holds
addFishAppending(S, user, aquariumId, input, clock) ==
  IF notOwned(S, user.id, aquariumId)
  THEN Outcome(S, "null")
  ELSE IF ~(input.quantity > 0) \/ ~hasFish(input.speciesId)
       THEN Outcome(S, "throw")
       ELSE LET S1 ==
                  [S EXCEPT
                     !.aquariumStock =
                       MapSet(@, aquariumId,
                              Append(GetOr(S.aquariumStock, aquariumId, <<>>),
                                     [id |-> randomUUID(S.uuid),
                                      aquariumId |-> aquariumId,
                                      speciesId |-> input.speciesId,
                                      quantity |-> input.quantity])),
                     !.uuid = @ + 1]
            IN Outcome(
                 recalculateAquariumInsights(S1, S1.aquariums[aquariumId], user, clock),
                 "ok")

\* Faulty variant of addFishToAquarium: the species is not looked up in the catalog
addFishOfAnySpecies(S, user, aquariumId, input, clock) ==
  IF notOwned(S, user.id, aquariumId)
  THEN Outcome(S, "null")
  ELSE IF ~(input.quantity > 0)
       THEN Outcome(S, "throw")
       ELSE LET stockRecords == GetOr(S.aquariumStock, aquariumId, <<>>)
                idx == FindIndex(stockRecords,
                                 LAMBDA record : record.speciesId = input.speciesId)
                nextRecords ==
                  IF idx # 0
                  THEN [stockRecords EXCEPT ![idx].quantity = @ + input.quantity]
                  ELSE Append(stockRecords,
                              [id |-> randomUUID(S.uuid),
                               aquariumId |-> aquariumId,
                               speciesId |-> input.speciesId,
                               quantity |-> input.quantity])
            IN Outcome([S EXCEPT !.aquariumStock = MapSet(@, aquariumId, nextRecords),
                                 !.uuid = IF idx # 0 THEN @ ELSE @ + 1],
                       "ok")

addFishToAquarium(S, user, aquariumId, input, clock) ==
  IF notOwned(S, user.id, aquariumId)
  THEN Outcome(S, "null")
  ELSE IF ~(input.quantity > 0)
       THEN Outcome(S, "throw")
       ELSE IF ~hasFish(input.speciesId)
            THEN Outcome(S, "throw")
            ELSE LET stockRecords == GetOr(S.aquariumStock, aquariumId, <<>>)
                     idx == FindIndex(stockRecords,
                                      LAMBDA record : record.speciesId = input.speciesId)
                     nextRecords ==
                       IF idx # 0
                       THEN [stockRecords EXCEPT ![idx].quantity = @ + input.quantity]
                       ELSE Append(stockRecords,
                                   [id |-> randomUUID(S.uuid),
                                    aquariumId |-> aquariumId,
                                    speciesId |-> input.speciesId,
                                    quantity |-> input.quantity])
                     S1 == [S EXCEPT !.aquariumStock = MapSet(@, aquariumId, nextRecords),
                                     !.uuid = IF idx # 0 THEN @ ELSE @ + 1]
                 IN Outcome(
                      recalculateAquariumInsights(S1, S1.aquariums[aquariumId], user, clock),
                      "ok")

\* Faulty variant of updateStockQuantity: the quantity is tested after the tank
\* and the entry are looked up, and after the entry is written
updateStockQuantityValidatingLate(S, user, aquariumId, stockId, quantity, clock) ==
  IF notOwned(S, user.id, aquariumId)
  THEN Outcome(S, "null")
  ELSE LET stockRecords == GetOr(S.aquariumStock, aquariumId, <<>>)
           idx == FindIndex(stockRecords, LAMBDA item : item.id = stockId)
       IN IF idx = 0
          THEN Outcome(S, "null")
          ELSE LET S1 ==
                     [S EXCEPT
                        !.aquariumStock =
                          MapSet(@, aquariumId,
                                 [stockRecords EXCEPT ![idx].quantity = quantity])]
               IN IF quantity <= 0
                  THEN Outcome(S1, "throw")
                  ELSE Outcome(recalculateAquariumInsights(S1, S.aquariums[aquariumId],
                                                           user, clock),
                               "ok")

updateStockQuantity(S, user, aquariumId, stockId, quantity, clock) ==
  IF quantity <= 0
  THEN Outcome(S, "throw")
  ELSE IF notOwned(S, user.id, aquariumId)
       THEN Outcome(S, "null")
       ELSE LET aquarium == S.aquariums[aquariumId]
                stockRecords == GetOr(S.aquariumStock, aquariumId, <<>>)
                idx == FindIndex(stockRecords, LAMBDA item : item.id = stockId)
            IN IF idx = 0
               THEN Outcome(S, "null")
               ELSE LET S1 ==
                          [S EXCEPT
                             !.aquariumStock =
                               MapSet(@, aquariumId,
                                      [stockRecords EXCEPT ![idx].quantity = quantity])]
                    IN Outcome(recalculateAquariumInsights(S1, aquarium, user, clock), "ok")

\* Faulty variant of removeFishFromAquarium: the pass runs on the list as it was
\* read, and the filtered list is stored after it
removeFishRecalculatingFirst(S, user, aquariumId, stockId, clock) ==
  IF notOwned(S, user.id, aquariumId)
  THEN Outcome(S, "null")
  ELSE LET S1 == recalculateAquariumInsights(S, S.aquariums[aquariumId], user, clock)
           filtered == SelectSeq(GetOr(S.aquariumStock, aquariumId, <<>>),
                                 LAMBDA item : item.id # stockId)
       IN Outcome([S1 EXCEPT !.aquariumStock = MapSet(@, aquariumId, filtered)], "ok")

\* Faulty variant of removeFishFromAquarium: the list is stored and no pass is run
removeFishWithoutRecalculation(S, user, aquariumId, stockId, clock) ==
  IF notOwned(S, user.id, aquariumId)
  THEN Outcome(S, "null")
  ELSE LET stockRecords == GetOr(S.aquariumStock, aquariumId, <<>>)
           filtered == SelectSeq(stockRecords, LAMBDA item : item.id # stockId)
       IN Outcome([S EXCEPT !.aquariumStock = MapSet(@, aquariumId, filtered)], "ok")

removeFishFromAquarium(S, user, aquariumId, stockId, clock) ==
  IF notOwned(S, user.id, aquariumId)
  THEN Outcome(S, "null")
  ELSE LET aquarium == S.aquariums[aquariumId]
           stockRecords == GetOr(S.aquariumStock, aquariumId, <<>>)
           filtered == SelectSeq(stockRecords, LAMBDA item : item.id # stockId)
           S1 == [S EXCEPT !.aquariumStock = MapSet(@, aquariumId, filtered)]
       IN Outcome(recalculateAquariumInsights(S1, aquarium, user, clock), "ok")

\* Faulty variant of markTaskComplete: a pass is run after the task is stored
markTaskCompleteRecalculating(S, user, aquariumId, taskId, measurements, clock) ==
  IF notOwned(S, user.id, aquariumId)
  THEN Outcome(S, "null")
  ELSE LET tasks == GetOr(S.careTasks, aquariumId, <<>>)
           index == FindIndex(tasks, LAMBDA item : item.id = taskId)
       IN IF index = 0
          THEN Outcome(S, "null")
          ELSE Outcome(
                 recalculateAquariumInsights(
                   [S EXCEPT
                      !.careTasks =
                        MapSet(@, aquariumId,
                               [tasks EXCEPT
                                  ![index] =
                                    [@ EXCEPT
                                       !.status = "completed",
                                       !.lastCompletedAt = clock,
                                       !.nextDueAt = addDays(clock, tasks[index].intervalDays)]])],
                   S.aquariums[aquariumId], user, clock),
                 "ok")

\* Faulty variant of markTaskComplete: the next due date is counted from the
\* due date the task had, not from the hour of completion
markTaskCompleteFromDueDate(S, user, aquariumId, taskId, measurements, clock) ==
  IF notOwned(S, user.id, aquariumId)
  THEN Outcome(S, "null")
  ELSE LET tasks == GetOr(S.careTasks, aquariumId, <<>>)
           index == FindIndex(tasks, LAMBDA item : item.id = taskId)
       IN IF index = 0
          THEN Outcome(S, "null")
          ELSE Outcome([S EXCEPT
                          !.careTasks =
                            MapSet(@, aquariumId,
                                   [tasks EXCEPT
                                      ![index] =
                                        [@ EXCEPT
                                           !.status = "completed",
                                           !.lastCompletedAt = clock,
                                           !.nextDueAt = addDays(@, tasks[index].intervalDays)]])],
                       "ok")

\* measurements: a function from parameter names to values (empty: none given)
markTaskComplete(S, user, aquariumId, taskId, measurements, clock) ==
  IF notOwned(S, user.id, aquariumId)
  THEN Outcome(S, "null")
  ELSE LET tasks == GetOr(S.careTasks, aquariumId, <<>>)
           index == FindIndex(tasks, LAMBDA item : item.id = taskId)
       IN IF index = 0
          THEN Outcome(S, "null")
          ELSE LET task == tasks[index]
                   updated ==
                     [task EXCEPT
                        !.status = "completed",
                        !.lastCompletedAt = clock,
                        !.nextDueAt = addDays(clock, task.intervalDays),
                        !.parameters =
                          IF task.requiresMeasurement
                          THEN [i \in DOMAIN task.parameters |->
                                  [parameter |-> task.parameters[i].parameter,
                                   value |->
                                     IF task.parameters[i].parameter \in DOMAIN measurements
                                     THEN measurements[task.parameters[i].parameter]
                                     ELSE task.parameters[i].value]]
                          ELSE task.parameters]
               IN Outcome([S EXCEPT !.careTasks =
                                      MapSet(@, aquariumId, [tasks EXCEPT ![index] = updated])],
                          "ok")

\* ------------------------------------------------------------ user service
\* muteFeedingReminders is optional and absent here: an absent flag reads as false
baseNotificationSettings ==
  [channel |-> "email", preferredTime |-> "morning", muteFeedingReminders |-> FALSE]

freeSubscription == [plan |-> "free", aquariumLimit |-> freeAquariumLimit]

ensureUserProfile(S, userId) ==
  IF userId \in DOMAIN S.users
  THEN Outcome(S, "ok")
  ELSE Outcome([S EXCEPT !.users =
                           MapSet(@, userId,
                                  [id |-> userId,
                                   notificationSettings |-> baseNotificationSettings,
                                   subscription |-> freeSubscription])],
               "ok")

\* settings: a function from setting names to values (the Partial<> given)
updateNotificationSettings(S, userId, settings) ==
  IF userId \notin DOMAIN S.users
  THEN Outcome(S, "null")
  ELSE LET user == S.users[userId]
           updated ==
             [user EXCEPT
                !.notificationSettings =
                  [k \in DOMAIN @ |-> IF k \in DOMAIN settings THEN settings[k] ELSE @[k]]]
           owned == {a \in DOMAIN S.aquariums : S.aquariums[a].userId = userId}
       IN Outcome(
            [S EXCEPT
               !.users = MapSet(@, userId, updated),
               !.careTasks =
                 [a \in DOMAIN @ |->
                    IF a \in owned
                    THEN [i \in DOMAIN @[a] |->
                            [@[a][i] EXCEPT !.channel = updated.notificationSettings.channel]]
                    ELSE @[a]]],
            "ok")

upgradeToPremium(S, userId, months, aquariumLimit) ==
  IF userId \notin DOMAIN S.users
  THEN Outcome(S, "null")
  ELSE Outcome([S EXCEPT !.users[userId].subscription =
                           [plan |-> "premium", aquariumLimit |-> aquariumLimit]],
               "ok")

\* ------------------------------------------------------------------- state
VARIABLES
  users,          \* store.users
  aquariums,      \* store.aquariums
  aquariumStock,  \* store.aquariumStock
  careTasks,      \* store.careTasks
  uuid,           \* the next value crypto.randomUUID() gives
  now,            \* the wall clock, in hours
  probe,          \* an aquarium and a stock list handed to the calculators
  insights        \* what the calculators gave for probe

vars == <<users, aquariums, aquariumStock, careTasks, uuid, now, probe, insights>>

getStore ==
  [users |-> users, aquariums |-> aquariums, aquariumStock |-> aquariumStock,
   careTasks |-> careTasks, uuid |-> uuid]

createInitialStore ==
  [users |-> <<>>, aquariums |-> <<>>, aquariumStock |-> <<>>, careTasks |-> <<>>, uuid |-> 1]

\* ------------------------------------------------------------------ inputs
UserIds == {"u1"}
VolumeInputs == {0, 10, 20}
QuantityInputs == 0..MaxQuantity
StockInputs ==
  {[speciesId |-> s, quantity |-> q] : s \in {"guppy", "betta"}, q \in QuantityInputs \ {0}}
  \cup {[speciesId |-> "unknown_fish", quantity |-> 1], [speciesId |-> "guppy", quantity |-> 0]}
ClockSteps == {36}
CompletableTypes == {"feeding"}
MeasurementInputs == {"pH" :> 7}
\* Measurements handed to markTaskComplete when its result is examined: none, two
\* keys, a key given the value 0
MeasurementProbes == {<<>>, ("pH" :> 3) @@ ("NO3" :> 5), "KH" :> 0}
\* All seven keys measured: gives every measured task a value other than the placeholder
fullMeasurement == [k \in {"NO3", "NO2", "pH", "GH", "KH", "TA", "Cl2"} |-> 7]
SettingsInputs == {("channel" :> "push") @@ ("muteFeedingReminders" :> TRUE)}
AquariumLimitInputs == {1}

\* The clock values a pass that starts at clock may read, in order: the clock
\* stands still or moves on between any two of its reads
ClockReads(clock) ==
  {[calculated |-> clock, merged |-> t[1], mapped |-> t[2], settled |-> t[3]] :
     t \in {u \in ({clock} \cup {clock + d : d \in ClockSteps})
                     \X ({clock} \cup {clock + d : d \in ClockSteps})
                     \X ({clock} \cup {clock + d : d \in ClockSteps}) :
              u[1] <= u[2] /\ u[2] <= u[3]}}

\* Identifiers a request may name: those in the store, and one never issued
noId == <<0, 0>>
AquariumIdInputs == DOMAIN aquariums \cup {noId}
StockIdInputs(a) ==
  {noId} \cup (IF a \in DOMAIN aquariumStock
               THEN {aquariumStock[a][i].id : i \in DOMAIN aquariumStock[a]}
               ELSE {})
TaskIdInputs(a) ==
  {noId} \cup (IF a \in DOMAIN careTasks
               THEN {careTasks[a][i].id : i \in {j \in DOMAIN careTasks[a] :
                                                   careTasks[a][j].type \in CompletableTypes}}
               ELSE {})

\* The bounds of the model: identifiers issued, quantity per entry, entries per tank
withinBounds(S) ==
  /\ S.uuid <= MaxIds + 1
  /\ \A a \in DOMAIN S.aquariumStock :
       /\ Len(S.aquariumStock[a]) <= MaxStockLen
       /\ \A i \in DOMAIN S.aquariumStock[a] : S.aquariumStock[a][i].quantity <= MaxQuantity

\* ----------------------------------------------------------------- actions
\* The store after a service call
Commit(out) ==
  /\ withinBounds(out.S)
  /\ users' = out.S.users
  /\ aquariums' = out.S.aquariums
  /\ aquariumStock' = out.S.aquariumStock
  /\ careTasks' = out.S.careTasks
  /\ uuid' = out.S.uuid
  /\ UNCHANGED <<now, probe, insights>>

EnsureUserProfile ==
  \E u \in UserIds \ DOMAIN users :
    Commit(ensureUserProfile(getStore, u))

CreateAquarium ==
  \E u \in DOMAIN users, v \in VolumeInputs :
    Commit(createAquarium(getStore, users[u], [volumeLiters |-> v], now))

UpdateAquarium ==
  \E u \in DOMAIN users, a \in AquariumIdInputs, v \in VolumeInputs \cup {undefined} :
    Commit(updateAquarium(getStore, users[u], a, [volumeLiters |-> v], now))

DeleteAquarium ==
  \E u \in DOMAIN users, a \in AquariumIdInputs :
    Commit(deleteAquarium(getStore, u, a))

AddFishToAquarium ==
  \E u \in DOMAIN users, a \in AquariumIdInputs, input \in StockInputs :
    Commit(addFishToAquarium(getStore, users[u], a, input, now))

UpdateStockQuantity ==
  \E u \in DOMAIN users, a \in AquariumIdInputs :
    \E k \in StockIdInputs(a), q \in QuantityInputs :
      Commit(updateStockQuantity(getStore, users[u], a, k, q, now))

RemoveFishFromAquarium ==
  \E u \in DOMAIN users, a \in AquariumIdInputs :
    \E k \in StockIdInputs(a) :
      Commit(removeFishFromAquarium(getStore, users[u], a, k, now))

MarkTaskComplete ==
  \E u \in DOMAIN users, a \in AquariumIdInputs :
    \E k \in TaskIdInputs(a), m \in MeasurementInputs :
      Commit(markTaskComplete(getStore, users[u], a, k, m, now))

UpdateNotificationSettings ==
  \E u \in DOMAIN users, s \in SettingsInputs :
    Commit(updateNotificationSettings(getStore, u, s))

UpgradeToPremium ==
  \E u \in DOMAIN users, limit \in AquariumLimitInputs :
    Commit(upgradeToPremium(getStore, u, 1, limit))

\* Time passes between two requests
Tick ==
  \E d \in ClockSteps :
    /\ now + d <= MaxTime
    /\ now' = now + d
    /\ UNCHANGED <<users, aquariums, aquariumStock, careTasks, uuid, probe, insights>>

noProbe == [aquarium |-> [volumeLiters |-> 0], stock |-> <<>>]
noInsights ==
  [evaluated |-> FALSE,
   bioLoad |-> [requiredVolumeLiters |-> 0, percentage |-> 0, status |-> "comfort"],
   compatibility |-> [status |-> "ok", warnings |-> <<>>]]

Init ==
  /\ users = createInitialStore.users
  /\ aquariums = createInitialStore.aquariums
  /\ aquariumStock = createInitialStore.aquariumStock
  /\ careTasks = createInitialStore.careTasks
  /\ uuid = createInitialStore.uuid
  /\ now = 10
  /\ probe = noProbe
  /\ insights = noInsights

Next ==
  \/ EnsureUserProfile
  \/ CreateAquarium
  \/ UpdateAquarium
  \/ DeleteAquarium
  \/ AddFishToAquarium
  \/ UpdateStockQuantity
  \/ RemoveFishFromAquarium
  \/ MarkTaskComplete
  \/ UpdateNotificationSettings
  \/ UpgradeToPremium
  \/ Tick

Spec == Init /\ [][Next]_vars

\* ------------------------------------------------- time and requests go on
\* The hours at which requests are handled
ClockValues == {t \in 0 .. MaxTime : t >= 10 /\ (t - 10) % 36 = 0}

\* A step that is a request of its owner to update a tank, which recalculates it
\* (the first three conjuncts are implied by the last)
Recalculate ==
  \E a \in DOMAIN aquariums :
    /\ now' = now
    /\ aquariumStock' = aquariumStock
    /\ a \in DOMAIN aquariums' /\ aquariums'[a].lastCalculatedAt = now
    /\ \E v \in VolumeInputs \cup {undefined} :
         Commit(updateAquarium(getStore, users[aquariums[a].userId], a,
                               [volumeLiters |-> v], now))

\* The services with a clock that keeps advancing, up to MaxTime, and with
\* requests that keep recalculating the tank there is. The last conjunct is
\* WF_vars(Recalculate) written out: a Recalculate step that changes the state
\* (one that names another volume) is enabled exactly when a tank exists.
LiveSpec ==
  /\ Init
  /\ [][Next]_vars
  /\ WF_vars(Tick)
  /\ ([]<>(DOMAIN aquariums = {}) \/ []<><<Recalculate>>_vars)

\* ------------------------------------------------------------------ reads
\* Faulty variant of listAquariums: the statuses of the tasks are brought up to
\* date with the clock before the tanks are returned
listAquariumsRefreshing(S, userId) ==
  LET S1 == [S EXCEPT !.careTasks =
               [a \in DOMAIN @ |->
                  IF a \in DOMAIN S.aquariums /\ S.aquariums[a].userId = userId
                  THEN [i \in DOMAIN @[a] |-> updateTaskStatus(@[a][i], now)]
                  ELSE @[a]]]
  IN [S |-> S1, result |-> "ok", value |-> getUserAquariums(S1, userId)]

\* What listAquariums gives back: the store it leaves and the tanks it returns
listAquariums(S, userId) ==
  [S |-> S, result |-> "ok", value |-> getUserAquariums(S, userId)]

\* ------------------------------------------------ tanks and subscriptions
\* The limits the upgrade route hands to upgradeToPremium: any from 1 up
UpgradeLimitInputs == 1 .. MaxLimit

UpgradeToAnyLimit ==
  \E u \in DOMAIN users, limit \in UpgradeLimitInputs :
    Commit(upgradeToPremium(getStore, u, 1, limit))

LimitNext ==
  \/ EnsureUserProfile
  \/ CreateAquarium
  \/ DeleteAquarium
  \/ UpgradeToAnyLimit

\* Tanks created and deleted by a user whose subscription changes
LimitSpec == Init /\ [][LimitNext]_vars

\* ------------------------------------------------------ tanks side by side
StoreNext ==
  \/ EnsureUserProfile
  \/ UpgradeToAnyLimit
  \/ CreateAquarium
  \/ UpdateAquarium
  \/ DeleteAquarium
  \/ AddFishToAquarium
  \/ UpdateStockQuantity
  \/ RemoveFishFromAquarium
  \/ MarkTaskComplete
  \/ UpdateNotificationSettings

\* A user with room for more than one tank: every operation of the services
\* at one clock value, on tanks that exist next to each other
StoreSpec == Init /\ [][StoreNext]_vars

\* ------------------------------------------------- the calculators alone
\* The evaluator and the scanner applied to an aquarium and a stock list drawn
\* from bounded sets: no two entries of a stock list name the same species.
ProbeVolumes == {0, 8, 25, 33, 99, 100}

ProbeEntries ==
  {[speciesId |-> s, quantity |-> q] : s \in SpeciesIds, q \in 1..MaxProbeQuantity}

RECURSIVE ProbeStocksOfLen(_)
ProbeStocksOfLen(n) ==
  IF n = 0
  THEN {<<>>}
  ELSE {Append(p[1], p[2]) :
          p \in {q \in ProbeStocksOfLen(n - 1) \X ProbeEntries :
                   \A i \in DOMAIN q[1] : q[1][i].speciesId # q[2].speciesId}}

ProbeStocks == UNION {ProbeStocksOfLen(n) : n \in 0..MaxProbeLen}

ProbeInputs ==
  {[aquarium |-> [volumeLiters |-> v], stock |-> s] : v \in ProbeVolumes, s \in ProbeStocks}

PureInit ==
  /\ users = createInitialStore.users
  /\ aquariums = createInitialStore.aquariums
  /\ aquariumStock = createInitialStore.aquariumStock
  /\ careTasks = createInitialStore.careTasks
  /\ uuid = createInitialStore.uuid
  /\ now = 10
  /\ probe \in ProbeInputs
  /\ insights = noInsights

\* summarizeBioLoad and evaluateCompatibility, as buildAquariumInsights calls them
EvaluateProbe ==
  /\ ~insights.evaluated
  /\ insights' = [evaluated |-> TRUE,
                  bioLoad |-> summarizeBioLoad(probe.aquarium, probe.stock),
                  compatibility |-> evaluateCompatibility(probe.stock)]
  /\ UNCHANGED <<users, aquariums, aquariumStock, careTasks, uuid, now, probe>>

PureNext == EvaluateProbe

PureSpec == PureInit /\ [][PureNext]_vars

\* -------------------------------------------------------------- properties
\* The behaviours of the two species of a pair
behaviorOf(speciesId) == fishSpeciesCatalog[speciesId].behavior

\* What the behaviour table says of an unordered pair of behaviours
pairClass(a, b) ==
  IF b \in behaviorMatrix[a].incompatibleWith \/ a \in behaviorMatrix[b].incompatibleWith
  THEN "conflict"
  ELSE IF b \in behaviorMatrix[a].cautionWith \/ a \in behaviorMatrix[b].cautionWith
       THEN "caution"
       ELSE "none"

\* The kind of a warning, read off its message
warningClass(w) ==
  IF w.message \in {"conflict_a_b", "conflict_b_a"} THEN "conflict" ELSE "caution"

\* The kinds of the warnings that name the two species, in either order
classesOfPair(warnings, s1, s2) ==
  {warningClass(warnings[n]) :
     n \in {m \in DOMAIN warnings : {warnings[m].speciesAId, warnings[m].speciesBId} = {s1, s2}}}

\* The stock list with its entries in the opposite order
reversed(stock) == [i \in DOMAIN stock |-> stock[Len(stock) + 1 - i]]

RECURSIVE SumTo(_, _)
SumTo(f, n) == IF n = 0 THEN 0 ELSE f[n] + SumTo(f, n - 1)

\* The sum over the stock entries of quantity x recommendedVolumePerFish
StockVolume(stock) ==
  SumTo([i \in DOMAIN stock |->
           stock[i].quantity * fishSpeciesCatalog[stock[i].speciesId].recommendedVolumePerFish],
        Len(stock))

\* The stock entries' identifiers of tank a in store S
stockIds(S, a) == {S.aquariumStock[a][i].id : i \in DOMAIN S.aquariumStock[a]}

\* The stores that the recalculating calls of tank a's owner leave, made on store
\* S at the given clock: updateAquarium, addFishToAquarium, updateStockQuantity
\* and removeFishFromAquarium, each with every input of the model
RecalculationOutcomes(S, a, clock) ==
  LET user == S.users[S.aquariums[a].userId]
      calls ==
        {updateAquarium(S, user, a, [volumeLiters |-> v], clock) :
           v \in VolumeInputs \cup {undefined}}
        \cup {addFishToAquarium(S, user, a, input, clock) : input \in StockInputs}
        \cup {updateStockQuantity(S, user, a, p[1], p[2], clock) :
                p \in stockIds(S, a) \X {1, MaxQuantity + 1}}
        \cup {removeFishFromAquarium(S, user, a, k, clock) : k \in stockIds(S, a) \cup {noId}}
  IN {out.S : out \in {o \in calls : o.result = "ok"}}

\* The task of the given kind in a task list (the list holds one)
taskOfType(tasks, type) == tasks[CHOOSE i \in DOMAIN tasks : tasks[i].type = type]

\* The derived fields of a tank record
derivedFields(aquarium) ==
  <<aquarium.status, aquarium.bioLoadPercentage, aquarium.requiredVolumeLiters,
    aquarium.compatibilityStatus, aquarium.warnings>>

\* The store after the owner removes the stock entries of tank a one by one
RECURSIVE removeEveryFish(_, _, _, _)
removeEveryFish(S, user, a, clock) ==
  IF S.aquariumStock[a] = <<>>
  THEN S
  ELSE removeEveryFish(
         removeFishFromAquarium(S, user, a, S.aquariumStock[a][1].id, clock).S,
         user, a, clock)

\* A user who owns no tank: the profile ensureUserProfile gives a second user
intruder ==
  [id |-> "u2", notificationSettings |-> baseNotificationSettings,
   subscription |-> freeSubscription]

\* The users who may call a service with tank id a and do not own that tank
strangersOf(S, a) ==
  {intruder} \cup {S.users[u] : u \in {v \in DOMAIN S.users : notOwned(S, v, a)}}

taskIds(S, a) == {S.careTasks[a][i].id : i \in DOMAIN S.careTasks[a]}

\* What the services that name a tank give when caller names tank a: every
\* operation, with valid and invalid payloads, stock and task ids of the tank
\* and one never issued, and updateStockQuantity with the quantities given
TankCalls(S, caller, a, quantities, clock) ==
  LET stocks == {noId} \cup (IF a \in DOMAIN S.aquariumStock THEN stockIds(S, a) ELSE {})
      tasks == {noId} \cup (IF a \in DOMAIN S.careTasks THEN taskIds(S, a) ELSE {})
  IN {getAquarium(S, caller.id, a), deleteAquarium(S, caller.id, a)}
     \cup {updateAquarium(S, caller, a, [volumeLiters |-> v], clock) :
             v \in VolumeInputs \cup {undefined}}
     \cup {addFishToAquarium(S, caller, a, input, clock) : input \in StockInputs}
     \cup {updateStockQuantity(S, caller, a, k, q, clock) : k \in stocks, q \in quantities}
     \cup {removeFishFromAquarium(S, caller, a, k, clock) : k \in stocks}
     \cup {markTaskComplete(S, caller, a, k, m, clock) :
             k \in tasks, m \in MeasurementProbes}

\* C1: a tank whose stock list is empty has status comfort, bioLoadPercentage 0,
\* compatibilityStatus ok, no warnings and no care tasks, and every removal that
\* empties the stock list leaves the tank so.
C1_EmptyStockIsComfort ==
  LET reset(S, a) ==
        S.aquariumStock[a] = <<>> =>
          /\ S.aquariums[a].status = "comfort"
          /\ S.aquariums[a].bioLoadPercentage = 0
          /\ S.aquariums[a].compatibilityStatus = "ok"
          /\ S.aquariums[a].warnings = <<>>
          /\ S.careTasks[a] = <<>>
  IN \A a \in DOMAIN aquariums :
       /\ reset(getStore, a)
       /\ \A k \in stockIds(getStore, a) :
            reset(removeFishFromAquarium(getStore, users[aquariums[a].userId], a, k, now).S, a)

\* A tank whose stock list is empty after identifiers were issued for its stock
\* and its tasks: the last entry has been removed
C1_Witness ==
  \E a \in DOMAIN aquariums :
    /\ aquariumStock[a] = <<>>
    /\ uuid > a[1] + 2
    /\ aquariums[a].lastCalculatedAt # undefined
    /\ careTasks[a] = <<>>

\* C2: a tank with at least one stock entry has exactly 10 care tasks, one of each
\* kind, and a tank with no stock entry has none.
C2_OneTaskPerKind ==
  \A a \in DOMAIN aquariums :
    IF Len(aquariumStock[a]) > 0
    THEN /\ Len(careTasks[a]) = 10
         /\ \A type \in CareTaskTypes :
              Cardinality({i \in DOMAIN careTasks[a] : careTasks[a][i].type = type}) = 1
    ELSE careTasks[a] = <<>>

\* A tank holding two species whose tasks have been through a completion and a
\* later recalculation
C2_Witness ==
  \E a \in DOMAIN aquariums :
    /\ Len(aquariumStock[a]) = 2
    /\ Len(careTasks[a]) = 10
    /\ \E i \in DOMAIN careTasks[a] :
         /\ careTasks[a][i].lastCompletedAt # undefined
         /\ careTasks[a][i].lastCompletedAt < aquariums[a].lastCalculatedAt

\* C3: the stored status, bioLoadPercentage, requiredVolumeLiters,
\* compatibilityStatus and warnings of every tank are what the evaluator and the
\* scanner give for the tank's stored volume and stock list, and
\* compatibilityStatus is warn exactly when warnings is not empty.
C3_DerivedFieldsAreCurrent ==
  \A a \in DOMAIN aquariums :
    /\ [status |-> aquariums[a].status,
        percentage |-> aquariums[a].bioLoadPercentage,
        requiredVolumeLiters |-> aquariums[a].requiredVolumeLiters]
         = summarizeBioLoad(aquariums[a], aquariumStock[a])
    /\ [status |-> aquariums[a].compatibilityStatus, warnings |-> aquariums[a].warnings]
         = evaluateCompatibility(aquariumStock[a])
    /\ aquariums[a].compatibilityStatus = "warn" <=> aquariums[a].warnings # <<>>

\* A tank of 20 litres holding an incompatible pair: load 100%, one warning
C3_Witness ==
  \E a \in DOMAIN aquariums :
    /\ Len(aquariumStock[a]) = 2
    /\ aquariums[a].volumeLiters = 20
    /\ aquariums[a].bioLoadPercentage = 100
    /\ aquariums[a].status = "elevated"
    /\ aquariums[a].compatibilityStatus = "warn"
    /\ Len(aquariums[a].warnings) = 1

\* C4: every care task's intervalDays is the interval matrix entry for the tank's
\* stored status and the task's kind, and markTaskComplete leaves it unchanged.
C4_IntervalsFollowStatus ==
  \A a \in DOMAIN aquariums :
    \A i \in DOMAIN careTasks[a] :
      LET task == careTasks[a][i] IN
      /\ task.intervalDays = intervalMatrix[aquariums[a].status][task.type]
      /\ \A completed \in {markTaskComplete(getStore, users[aquariums[a].userId], a,
                                             task.id, <<>>, now)} :
           /\ completed.result = "ok"
           /\ completed.S.careTasks[a][i].intervalDays = task.intervalDays
           /\ completed.S.aquariums[a].status = aquariums[a].status

\* A tank whose tasks were created under status comfort (a guppy alone) and that
\* is critical now: the water change is due every 3 days
C4_Witness ==
  \E a \in DOMAIN aquariums :
    /\ Len(aquariumStock[a]) = 2
    /\ aquariumStock[a][1].speciesId = "guppy"
    /\ aquariums[a].status = "critical"
    /\ \E i \in DOMAIN careTasks[a] :
         /\ careTasks[a][i].type = "water_change"
         /\ careTasks[a][i].id[1] < aquariumStock[a][2].id[1]
         /\ careTasks[a][i].intervalDays = 3

\* C5: a recalculation that leaves the stock of a tank non-empty keeps, for every
\* task the tank held, the task of that kind with the same id, createdAt,
\* lastCompletedAt and measurement parameters; the tasks are those stored, the pH
\* test among them completed with a measurement just before the recalculation.
C5_RecalculationKeepsTasks ==
  \A a \in DOMAIN aquariums :
    LET user == users[aquariums[a].userId]
        before ==
          {markTaskComplete(getStore, user, a, careTasks[a][i].id, m, now).S :
             i \in {j \in DOMAIN careTasks[a] : careTasks[a][j].type = "test_ph"},
             m \in MeasurementInputs}
    IN \A S0 \in before :
         \A S1 \in RecalculationOutcomes(S0, a, now) :
           Len(S1.aquariumStock[a]) > 0 =>
             \A i \in DOMAIN S0.careTasks[a] :
               LET old == S0.careTasks[a][i]
                   kept == {j \in DOMAIN S1.careTasks[a] : S1.careTasks[a][j].type = old.type}
               IN /\ Cardinality(kept) = 1
                  /\ \A j \in kept :
                       /\ S1.careTasks[a][j].id = old.id
                       /\ S1.careTasks[a][j].createdAt = old.createdAt
                       /\ S1.careTasks[a][j].lastCompletedAt = old.lastCompletedAt
                       /\ S1.careTasks[a][j].parameters = old.parameters

\* A task completed at an earlier hour that a later recalculation has kept, in a
\* tank whose second species was added after the tasks were created
C5_Witness ==
  \E a \in DOMAIN aquariums :
    /\ Len(aquariumStock[a]) = 2
    /\ \E i \in DOMAIN careTasks[a] :
         /\ careTasks[a][i].lastCompletedAt # undefined
         /\ careTasks[a][i].lastCompletedAt < aquariums[a].lastCalculatedAt
         /\ careTasks[a][i].createdAt < careTasks[a][i].lastCompletedAt
         /\ careTasks[a][i].id[1] < aquariumStock[a][2].id[1]

\* C6: a second recalculation of a tank, run at the hour of the first one on the
\* store the first one left (same stock, volume, settings and clock), gives the
\* same derived fields and the same task ids and createdAt stamps.
C6_RecalculationIsIdempotent ==
  \A a \in {b \in DOMAIN aquariums : aquariums[b].lastCalculatedAt = now} :
    \A S2 \in {recalculateAquariumInsights(getStore, aquariums[a],
                                            users[aquariums[a].userId], now)} :
      /\ derivedFields(S2.aquariums[a]) = derivedFields(aquariums[a])
      /\ Len(S2.careTasks[a]) = Len(careTasks[a])
      /\ \A i \in DOMAIN careTasks[a] :
           /\ S2.careTasks[a][i].id = careTasks[a][i].id
           /\ S2.careTasks[a][i].createdAt = careTasks[a][i].createdAt
           /\ S2.careTasks[a][i].type = careTasks[a][i].type

\* A tank just recalculated, at an hour later than the one its tasks were created
\* at, holding two species and a warning
C6_Witness ==
  \E a \in DOMAIN aquariums :
    /\ Len(aquariumStock[a]) = 2
    /\ aquariums[a].lastCalculatedAt = now
    /\ aquariums[a].warnings # <<>>
    /\ \E i \in DOMAIN careTasks[a] : careTasks[a][i].createdAt < now

\* C7: the evaluator's status is critical exactly when percentage > 100, elevated
\* exactly when 60 < percentage <= 100 and comfort exactly when percentage <= 60.
C7_StatusThresholds ==
  insights.evaluated =>
    LET b == insights.bioLoad IN
    /\ b.status = "critical" <=> b.percentage > 100
    /\ b.status = "elevated" <=> (60 < b.percentage /\ b.percentage <= 100)
    /\ b.status = "comfort" <=> b.percentage <= 60
    /\ b.percentage = 60 => b.status = "comfort"
    /\ b.percentage = 61 => b.status = "elevated"
    /\ b.percentage = 100 => b.status = "elevated"
    /\ b.percentage = 101 => b.status = "critical"

\* An evaluation that lands on the boundary 100 and gives elevated
C7_Witness ==
  /\ insights.evaluated
  /\ insights.bioLoad.percentage = 100
  /\ insights.bioLoad.status = "elevated"

\* C8: requiredVolumeLiters is the sum of quantity x recommendedVolumePerFish over
\* the stock, percentage is required / volume x 100 rounded to the nearest integer
\* (halves upwards), and a volume of 0 gives percentage 0 and status comfort.
C8_RequiredVolumeAndPercentage ==
  insights.evaluated =>
    LET b == insights.bioLoad
        volume == probe.aquarium.volumeLiters
        required == StockVolume(probe.stock)
    IN /\ b.requiredVolumeLiters = required
       /\ volume = 0 => (b.percentage = 0 /\ b.status = "comfort")
       /\ volume > 0 =>
            /\ 200 * required - volume < 2 * b.percentage * volume
            /\ 2 * b.percentage * volume <= 200 * required + volume

\* An evaluation of a stocked tank of volume 0
C8_Witness ==
  /\ insights.evaluated
  /\ probe.aquarium.volumeLiters = 0
  /\ insights.bioLoad.requiredVolumeLiters > 0
  /\ insights.bioLoad.percentage = 0

\* C9: the scanner emits, for each unordered pair of stock entries, exactly one
\* conflict warning when either behaviour lists the other as incompatible, exactly
\* one caution warning when neither does and at least one lists the other under
\* caution, and none otherwise; the status is warn exactly when a warning exists;
\* peaceful with aggressive gives one warning, two peaceful species give none.
C9_OneWarningPerPair ==
  insights.evaluated =>
    LET stock == probe.stock
        warnings == insights.compatibility.warnings
        pairs == {p \in (DOMAIN stock) \X (DOMAIN stock) : p[1] < p[2]}
        class(p) == pairClass(behaviorOf(stock[p[1]].speciesId),
                              behaviorOf(stock[p[2]].speciesId))
        hits(p) ==
          {n \in DOMAIN warnings :
             {warnings[n].speciesAId, warnings[n].speciesBId}
               = {stock[p[1]].speciesId, stock[p[2]].speciesId}}
    IN /\ \A p \in pairs :
            IF class(p) = "none"
            THEN hits(p) = {}
            ELSE /\ Cardinality(hits(p)) = 1
                 /\ \A n \in hits(p) : warningClass(warnings[n]) = class(p)
       /\ Len(warnings) = Cardinality({p \in pairs : class(p) # "none"})
       /\ insights.compatibility.status = (IF Len(warnings) = 0 THEN "ok" ELSE "warn")
       /\ (Len(stock) = 2
           /\ {behaviorOf(stock[1].speciesId), behaviorOf(stock[2].speciesId)}
                = {"peaceful", "aggressive"})
            => (Len(warnings) = 1 /\ insights.compatibility.status = "warn")
       /\ (Len(stock) = 2
           /\ behaviorOf(stock[1].speciesId) = "peaceful"
           /\ behaviorOf(stock[2].speciesId) = "peaceful")
            => warnings = <<>>

\* A scan where only the second species lists the first as incompatible and the
\* first lists the second under caution: one warning, a conflict
C9_Witness ==
  /\ insights.evaluated
  /\ Len(probe.stock) = 2
  /\ behaviorOf(probe.stock[1].speciesId) = "bottom_dweller"
  /\ behaviorOf(probe.stock[2].speciesId) = "aggressive"
  /\ Len(insights.compatibility.warnings) = 1
  /\ warningClass(insights.compatibility.warnings[1]) = "conflict"

\* C10: a recalculation of a tank holding a completed task whose nextDueAt lies at
\* least intervalDays calendar days before now leaves that task active, with
\* nextDueAt its prior nextDueAt plus intervalDays days.
C10_RolloverGivesActive ==
  \A a \in DOMAIN aquariums :
    \A S1 \in RecalculationOutcomes(getStore, a, now) :
      Len(S1.aquariumStock[a]) > 0 =>
        \A i \in DOMAIN careTasks[a] :
          \A old \in {careTasks[a][i]}, new \in {taskOfType(S1.careTasks[a], careTasks[a][i].type)} :
             (/\ old.status = "completed"
              /\ differenceInCalendarDays(now, old.nextDueAt) >= new.intervalDays)
               => /\ new.status = "active"
                  /\ new.nextDueAt = addDays(old.nextDueAt, new.intervalDays)

\* C11: every task a recalculation creates because the tank held no task of that
\* kind is active in the task list the recalculation stores; a test_* task is
\* created with one parameter per measurement key, each at value 0, and feeding,
\* observe and water_change are created without parameters.
C11_NewTasksAreActive ==
  \A a \in DOMAIN aquariums :
    \A S1 \in RecalculationOutcomes(getStore, a, now) :
      \A j \in DOMAIN S1.careTasks[a] :
        \A new \in {S1.careTasks[a][j]} :
          (\A i \in DOMAIN careTasks[a] : careTasks[a][i].type # new.type)
            => /\ new.status = "active"
               /\ new.parameters =
                    [n \in DOMAIN baseTasks[j].measurementKeys |->
                       [parameter |-> baseTasks[j].measurementKeys[n], value |-> 0]]
               /\ new.type \in {"feeding", "observe", "water_change"}
                    => new.parameters = <<>>

\* C12: a recalculation of a tank holding a task that is neither completed nor
\* overdue and whose nextDueAt is before now leaves that task overdue, with its
\* nextDueAt unchanged.
C12_LateTaskBecomesOverdue ==
  \A a \in DOMAIN aquariums :
    \A late \in {{i \in DOMAIN careTasks[a] :
                     /\ careTasks[a][i].status \notin {"completed", "overdue"}
                     /\ careTasks[a][i].nextDueAt < now}} :
      late # {} =>
        \A S1 \in RecalculationOutcomes(getStore, a, now) :
          Len(S1.aquariumStock[a]) > 0 =>
            \A i \in late :
              \A new \in {taskOfType(S1.careTasks[a], careTasks[a][i].type)} :
                /\ new.status = "overdue"
                /\ new.nextDueAt = careTasks[a][i].nextDueAt
                /\ new.id = careTasks[a][i].id

\* A water change created active and due the next morning, found late by a later
\* recalculation: overdue, with the due date it was created with
C12_Witness ==
  \E a \in DOMAIN aquariums :
    \E i \in DOMAIN careTasks[a] :
      /\ careTasks[a][i].type = "water_change"
      /\ careTasks[a][i].status = "overdue"
      /\ careTasks[a][i].createdAt < aquariums[a].lastCalculatedAt
      /\ careTasks[a][i].nextDueAt
           = normalizeDueDate(careTasks[a][i].createdAt, 1,
                              users[aquariums[a].userId].notificationSettings.preferredTime)

\* An overdue task is late: the branch of updateTaskStatus that turns an overdue
\* task active again has nothing to act on
OverdueTasksAreLate ==
  \A a \in DOMAIN aquariums :
    \A i \in DOMAIN careTasks[a] :
      careTasks[a][i].status = "overdue" => careTasks[a][i].nextDueAt < now

\* Every recalculation that leaves stock non-empty keeps an overdue task overdue
\* with its nextDueAt, whatever interval it gives the task
RecalculationKeepsOverdue ==
  \A a \in DOMAIN aquariums :
    \A S1 \in RecalculationOutcomes(getStore, a, now) :
      Len(S1.aquariumStock[a]) > 0 =>
        \A i \in DOMAIN careTasks[a] :
          careTasks[a][i].status = "overdue"
            => \A new \in {taskOfType(S1.careTasks[a], careTasks[a][i].type)} :
                 /\ new.id = careTasks[a][i].id
                 /\ new.status = "overdue"
                 /\ new.nextDueAt = careTasks[a][i].nextDueAt

\* A step leaves an overdue task overdue with its nextDueAt, or completed at the
\* present hour, or it empties the tank's task list or deletes the tank
OverdueEndsByCompletionOrClearing ==
  \A a \in DOMAIN aquariums :
    \A i \in DOMAIN careTasks[a] :
      careTasks[a][i].status = "overdue"
        => \/ a \notin DOMAIN aquariums'
           \/ careTasks'[a] = <<>> /\ aquariumStock'[a] = <<>>
           \/ /\ i \in DOMAIN careTasks'[a]
              /\ careTasks'[a][i].id = careTasks[a][i].id
              /\ \/ /\ careTasks'[a][i].status = "overdue"
                    /\ careTasks'[a][i].nextDueAt = careTasks[a][i].nextDueAt
                 \/ /\ careTasks'[a][i].status = "completed"
                    /\ careTasks'[a][i].lastCompletedAt = now
                    /\ aquariums' = aquariums

\* C13: under the non-decreasing clock a recalculation never clears an overdue
\* flag: an overdue task stays overdue with the same nextDueAt through every
\* recalculation, also one that changes its intervalDays; it stops being overdue
\* only by markTaskComplete or by the task list being cleared; the branch that
\* turns an overdue task active is never taken.
C13_OverdueIsSticky ==
  /\ [](OverdueTasksAreLate /\ RecalculationKeepsOverdue)
  /\ [][OverdueEndsByCompletionOrClearing]_vars

\* A water change created due every 14 days in a comfortable tank, overdue in the
\* tank as it is now, elevated, where it is due every 7 days
C13_Witness ==
  \E a \in DOMAIN aquariums :
    /\ Len(aquariumStock[a]) = 2
    /\ aquariumStock[a][1].speciesId = "guppy"
    /\ aquariums[a].status = "elevated"
    /\ \E i \in DOMAIN careTasks[a] :
         /\ careTasks[a][i].type = "water_change"
         /\ careTasks[a][i].id[1] < aquariumStock[a][2].id[1]
         /\ careTasks[a][i].status = "overdue"
         /\ careTasks[a][i].intervalDays = 7
         /\ careTasks[a][i].nextDueAt < aquariums[a].lastCalculatedAt

\* C14: in every reachable state every care task of a user's tank has the user's
\* current notification channel, except that the feeding task has channel off
\* whenever the user's muteFeedingReminders is true.
C14_ChannelFollowsSettings ==
  \A a \in DOMAIN aquariums :
    \A i \in DOMAIN careTasks[a] :
      \A settings \in {users[aquariums[a].userId].notificationSettings} :
        careTasks[a][i].channel =
          IF careTasks[a][i].type = "feeding" /\ settings.muteFeedingReminders
          THEN "off"
          ELSE settings.channel

\* C15: markTaskComplete called by the owner with an existing task id leaves that
\* task completed, with lastCompletedAt = now and nextDueAt = now + intervalDays
\* days, whatever its status was; a task that requires measurement takes the
\* supplied value for each parameter whose key is supplied and keeps the others,
\* a task that does not keeps its parameters; every other task is untouched.
C15_CompletionPostcondition ==
  \A a \in DOMAIN aquariums :
    \A owner \in {users[aquariums[a].userId]} :
      \A i \in DOMAIN careTasks[a] :
        \A before \in {getStore,
                       markTaskComplete(getStore, owner, a, careTasks[a][i].id,
                                        fullMeasurement, now).S} :
          \A m \in MeasurementProbes :
            \A old \in {before.careTasks[a][i]} :
              \A out \in {markTaskComplete(before, owner, a, old.id, m, now)} :
                /\ out.result = "ok"
                /\ out.S.users = before.users
                /\ out.S.aquariums = before.aquariums
                /\ out.S.aquariumStock = before.aquariumStock
                /\ DOMAIN out.S.careTasks = DOMAIN before.careTasks
                /\ \A b \in DOMAIN before.careTasks \ {a} :
                     out.S.careTasks[b] = before.careTasks[b]
                /\ Len(out.S.careTasks[a]) = Len(before.careTasks[a])
                /\ \A j \in DOMAIN before.careTasks[a] \ {i} :
                     out.S.careTasks[a][j] = before.careTasks[a][j]
                /\ \A new \in {out.S.careTasks[a][i]} :
                     /\ new.status = "completed"
                     /\ new.lastCompletedAt = now
                     /\ new.nextDueAt = now + old.intervalDays * HoursPerDay
                     /\ new.id = old.id /\ new.type = old.type
                     /\ new.intervalDays = old.intervalDays
                     /\ Len(new.parameters) = Len(old.parameters)
                     /\ \A n \in DOMAIN old.parameters :
                          /\ new.parameters[n].parameter = old.parameters[n].parameter
                          /\ new.parameters[n].value =
                               IF old.requiresMeasurement
                                  /\ old.parameters[n].parameter \in DOMAIN m
                               THEN m[old.parameters[n].parameter]
                               ELSE old.parameters[n].value

\* A feeding task that went overdue and was completed after that, at the present
\* hour: completed, due one interval from now
C15_Witness ==
  \E a \in DOMAIN aquariums :
    \E i \in DOMAIN careTasks[a] :
      /\ careTasks[a][i].type = "feeding"
      /\ careTasks[a][i].status = "completed"
      /\ careTasks[a][i].lastCompletedAt = now
      /\ careTasks[a][i].createdAt < now
      /\ careTasks[a][i].nextDueAt = addDays(now, careTasks[a][i].intervalDays)
      /\ \E j \in DOMAIN careTasks[a] : careTasks[a][j].status = "overdue"

\* C16 as stated: every operation that names a tank, called by a user who does
\* not own it or for a tank that does not exist, returns not-found without
\* throwing and changes nothing; so does markTaskComplete with an unknown task id
\* on an owned tank.
C16_StrangersGetNotFound ==
  /\ \A a \in AquariumIdInputs :
       \A caller \in strangersOf(getStore, a) :
         \A out \in TankCalls(getStore, caller, a, -1 .. MaxProbeQuantity, now) :
           out.result = "null" /\ out.S = getStore
  /\ \A a \in DOMAIN aquariums :
       \A out \in {markTaskComplete(getStore, users[aquariums[a].userId], a, noId, m, now) :
                      m \in MeasurementProbes} :
         out.result = "null" /\ out.S = getStore

\* C16, amended: as stated for every call but updateStockQuantity with a quantity
\* of 0 or less, which throws for a caller who does not own the tank and for a
\* tank that does not exist, as it does for the owner; no call changes anything.
C16_StrangersGetNotFoundOrInvalidQuantity ==
  /\ \A a \in AquariumIdInputs :
       \A caller \in strangersOf(getStore, a) :
         /\ \A out \in TankCalls(getStore, caller, a, 1 .. MaxProbeQuantity, now) :
              out.result = "null" /\ out.S = getStore
         /\ \A out \in TankCalls(getStore, caller, a, {-1, 0}, now) :
              /\ out.S = getStore
              /\ out.result \in {"null", "throw"}
         /\ \A k \in StockIdInputs(a), q \in {-1, 0} :
              updateStockQuantity(getStore, caller, a, k, q, now).result = "throw"
  /\ \A a \in DOMAIN aquariums :
       \A out \in {markTaskComplete(getStore, users[aquariums[a].userId], a, noId, m, now) :
                      m \in MeasurementProbes} :
         out.result = "null" /\ out.S = getStore

\* A tank with stock and tasks that its owner can read and delete and a second
\* user cannot
C16_Witness ==
  \E a \in DOMAIN aquariums :
    /\ Len(aquariumStock[a]) > 0
    /\ Len(careTasks[a]) > 0
    /\ getAquarium(getStore, aquariums[a].userId, a).result = "ok"
    /\ deleteAquarium(getStore, aquariums[a].userId, a).S # getStore
    /\ getAquarium(getStore, intruder.id, a).result = "null"
    /\ deleteAquarium(getStore, intruder.id, a) = Outcome(getStore, "null")

\* C17: updateStockQuantity and removeFishFromAquarium called by the owner with a
\* stock id that is not in the tank's stock list return not-found (null), not a
\* tank record.
C17_AbsentStockIsNotFound ==
  \A a \in DOMAIN aquariums :
    \A owner \in {users[aquariums[a].userId]} :
      \A k \in {noId} \ stockIds(getStore, a) :
        /\ \A q \in 1 .. MaxProbeQuantity :
             updateStockQuantity(getStore, owner, a, k, q, now).result = "null"
        /\ removeFishFromAquarium(getStore, owner, a, k, now).result = "null"

\* C18: updateStockQuantity with a quantity of 0 or less throws and leaves the
\* whole store as it was, for every tank id and stock id, in the store or not,
\* and for the owner as for any other caller.
C18_InvalidQuantityIsRejected ==
  \A a \in AquariumIdInputs :
    \A caller \in {intruder} \cup {users[u] : u \in DOMAIN users} :
      \A k \in StockIdInputs(a), q \in {-1, 0} :
        updateStockQuantity(getStore, caller, a, k, q, now) = Outcome(getStore, "throw")

\* A stock entry whose owner may set its quantity to 2 and is refused 0
C18_Witness ==
  \E a \in DOMAIN aquariums :
    \E i \in DOMAIN aquariumStock[a] :
      \A owner \in {users[aquariums[a].userId]} :
        /\ aquariumStock[a][i].quantity > 0
        /\ updateStockQuantity(getStore, owner, a, aquariumStock[a][i].id, 0, now)
             = Outcome(getStore, "throw")
        /\ \A out \in {updateStockQuantity(getStore, owner, a, aquariumStock[a][i].id,
                                             MaxProbeQuantity, now)} :
             /\ out.result = "ok"
             /\ out.S.aquariumStock[a][i].quantity = MaxProbeQuantity

\* C19: addFishToAquarium called by the owner with a speciesId that is not in the
\* catalog throws before any write: stock list, derived fields, lastCalculatedAt
\* and task list are as they were; and every stock entry of every reachable state
\* has a speciesId of the catalog.
C19_UnknownSpeciesIsRejected ==
  /\ \A a \in DOMAIN aquariums :
       \A input \in {[speciesId |-> s, quantity |-> q] :
                        s \in {"unknown_fish", ""}, q \in 1 .. MaxProbeQuantity} :
         addFishToAquarium(getStore, users[aquariums[a].userId], a, input, now)
           = Outcome(getStore, "throw")
  /\ \A a \in DOMAIN aquariumStock :
       \A i \in DOMAIN aquariumStock[a] :
         /\ hasFish(aquariumStock[a][i].speciesId)
         /\ findFish(aquariumStock[a][i].speciesId).id = aquariumStock[a][i].speciesId

\* A stocked tank, calculated an hour-step ago, whose owner is refused a species
\* that is not in the catalog and given one that is
C19_Witness ==
  \E a \in DOMAIN aquariums :
    \A owner \in {users[aquariums[a].userId]} :
      /\ Len(aquariumStock[a]) > 0
      /\ aquariums[a].lastCalculatedAt < now
      /\ addFishToAquarium(getStore, owner, a,
                           [speciesId |-> "unknown_fish", quantity |-> 1], now).result = "throw"
      /\ addFishToAquarium(getStore, owner, a,
                           [speciesId |-> "betta", quantity |-> 1], now).result = "ok"

\* C20: createAquarium called by a user who owns at least subscription.aquariumLimit
\* tanks throws and creates nothing: no tank, stock list or task list is added and
\* the user's tanks are as they were.
C20_LimitIsEnforced ==
  \A u \in DOMAIN users :
    userAquariumCount(getStore, u) >= users[u].subscription.aquariumLimit
      => \A v \in VolumeInputs :
           createAquarium(getStore, users[u], [volumeLiters |-> v], now)
             = Outcome(getStore, "throw")

\* A user on the free plan who owns one stocked tank
C20_Witness ==
  \E u \in DOMAIN users :
    /\ users[u].subscription.aquariumLimit = freeAquariumLimit
    /\ userAquariumCount(getStore, u) = freeAquariumLimit
    /\ \E a \in DOMAIN aquariums : aquariums[a].userId = u /\ Len(aquariumStock[a]) > 0
    /\ createAquarium(getStore, users[u], [volumeLiters |-> 20], now).result = "throw"

\* No tank holds two stock entries of one species
NoDuplicateSpecies ==
  \A a \in DOMAIN aquariumStock :
    \A i, j \in DOMAIN aquariumStock[a] :
      aquariumStock[a][i].speciesId = aquariumStock[a][j].speciesId => i = j

\* The stock list of tank a after the owner adds q of species s to list stock: the
\* entry of s with q more, or a new last entry of q
stockAfterAdd(stock, after, s, q) ==
  \A held \in {{i \in DOMAIN stock : stock[i].speciesId = s}} :
    IF held # {}
    THEN /\ Len(after) = Len(stock)
         /\ \A i \in DOMAIN stock :
              after[i] = IF i \in held
                         THEN [stock[i] EXCEPT !.quantity = stock[i].quantity + q]
                         ELSE stock[i]
    ELSE /\ Len(after) = Len(stock) + 1
         /\ \A i \in DOMAIN stock : after[i] = stock[i]
         /\ after[Len(after)].speciesId = s
         /\ after[Len(after)].quantity = q
         /\ \A i \in DOMAIN stock : after[Len(after)].id # stock[i].id

\* An add by the owner, and a second add of the same species after it, leave one
\* entry of the species: the one held, if one was, with the quantities added to it
AddsAccumulate ==
  \A a \in DOMAIN aquariums :
    \A owner \in {users[aquariums[a].userId]} :
      \A s \in {"guppy", "betta"}, q \in 1 .. MaxProbeQuantity :
        \A first \in {addFishToAquarium(getStore, owner, a,
                                          [speciesId |-> s, quantity |-> q], now)} :
          /\ first.result = "ok"
          /\ stockAfterAdd(aquariumStock[a], first.S.aquariumStock[a], s, q)
          /\ q = 1 =>
               \A second \in {addFishToAquarium(first.S, owner, a,
                                                  [speciesId |-> s,
                                                   quantity |-> MaxProbeQuantity], now)} :
                 /\ second.result = "ok"
                 /\ stockAfterAdd(aquariumStock[a], second.S.aquariumStock[a], s,
                                  1 + MaxProbeQuantity)
                 /\ Len(second.S.aquariumStock[a]) = Len(first.S.aquariumStock[a])

\* C21: in every reachable state no tank holds two stock entries with the same
\* speciesId; addFishToAquarium for a species the tank holds keeps the entry and
\* its id and adds the quantity to it, and after a sequence of adds the entry's
\* quantity is the sum of the quantities added.
C21_AddsCoalesce == [](NoDuplicateSpecies /\ AddsAccumulate)

\* A tank holding a guppy entry and a betta entry, where a further add of guppy
\* gives the guppy entry, first in the list, one more
C21_Witness ==
  \E a \in DOMAIN aquariums :
    /\ Len(aquariumStock[a]) = 2
    /\ aquariumStock[a][1].speciesId = "guppy"
    /\ \A out \in {addFishToAquarium(getStore, users[aquariums[a].userId], a,
                                       [speciesId |-> "guppy", quantity |-> 1], now)} :
         /\ Len(out.S.aquariumStock[a]) = 2
         /\ out.S.aquariumStock[a][1].id = aquariumStock[a][1].id
         /\ out.S.aquariumStock[a][1].quantity = aquariumStock[a][1].quantity + 1

\* C22: one pass uses one value of now: when the clock moves on while a pass is
\* running, the task statuses, the nextDueAt values and lastCalculatedAt the
\* pass leaves are those of the pass evaluated against the clock value read at
\* its start.
C22_OneClockPerPass ==
  \A a \in DOMAIN aquariums :
    \A snapshot \in {recalculateAquariumInsights(getStore, aquariums[a],
                                                  users[aquariums[a].userId], now)} :
      \A reads \in ClockReads(now) :
        \A S1 \in {recalculateReading(getStore, aquariums[a],
                                        users[aquariums[a].userId], reads)} :
          /\ S1.aquariums[a].lastCalculatedAt = snapshot.aquariums[a].lastCalculatedAt
          /\ Len(S1.careTasks[a]) = Len(snapshot.careTasks[a])
          /\ \A i \in DOMAIN S1.careTasks[a] :
               /\ S1.careTasks[a][i].status = snapshot.careTasks[a][i].status
               /\ S1.careTasks[a][i].nextDueAt = snapshot.careTasks[a][i].nextDueAt

\* The derived fields and the task list of tank a in store S are those of its
\* stored stock and volume
insightsAreCurrent(S, a) ==
  /\ [status |-> S.aquariums[a].status,
      percentage |-> S.aquariums[a].bioLoadPercentage,
      requiredVolumeLiters |-> S.aquariums[a].requiredVolumeLiters]
       = summarizeBioLoad(S.aquariums[a], S.aquariumStock[a])
  /\ [status |-> S.aquariums[a].compatibilityStatus, warnings |-> S.aquariums[a].warnings]
       = evaluateCompatibility(S.aquariumStock[a])
  /\ IF S.aquariumStock[a] = <<>>
     THEN S.careTasks[a] = <<>>
     ELSE /\ Len(S.careTasks[a]) = Len(baseTasks)
          /\ \A i \in DOMAIN S.careTasks[a] :
               S.careTasks[a][i].intervalDays
                 = intervalMatrix[S.aquariums[a].status][S.careTasks[a][i].type]

\* A step that changes the stock list or the volume of a tank leaves, in the same
\* step, the derived fields and the task list of the new stock and volume
MutationIsOneStep ==
  \A a \in DOMAIN aquariums \cap DOMAIN aquariums' :
    (aquariumStock'[a] # aquariumStock[a]
       \/ aquariums'[a].volumeLiters # aquariums[a].volumeLiters)
      => /\ aquariums'[a].lastCalculatedAt = now
         /\ insightsAreCurrent([users |-> users', aquariums |-> aquariums',
                                aquariumStock |-> aquariumStock', careTasks |-> careTasks',
                                uuid |-> uuid'], a)

\* Two requests of the owner on one tank, an add and a change of volume, handled
\* in either order: both updates are in the store, with the insights of both
NoLostUpdate ==
  \A a \in DOMAIN aquariums :
    \A owner \in {users[aquariums[a].userId]} :
      \A add \in {[speciesId |-> "betta", quantity |-> 1]},
         change \in {[volumeLiters |-> 10]} :
        \A final \in
            {updateAquarium(addFishToAquarium(getStore, owner, a, add, now).S,
                            owner, a, change, now),
             addFishToAquarium(updateAquarium(getStore, owner, a, change, now).S,
                               owner, a, add, now)} :
          /\ final.result = "ok"
          /\ final.S.aquariums[a].volumeLiters = change.volumeLiters
          /\ stockAfterAdd(aquariumStock[a], final.S.aquariumStock[a],
                           add.speciesId, add.quantity)
          /\ insightsAreCurrent(final.S, a)

C24_ScannerIsSymmetric ==
  insights.evaluated =>
    \A opposite \in {evaluateCompatibility(reversed(probe.stock))} :
      /\ opposite.status = insights.compatibility.status
      /\ Len(opposite.warnings) = Len(insights.compatibility.warnings)
      /\ \A i, j \in DOMAIN probe.stock :
           classesOfPair(opposite.warnings, probe.stock[i].speciesId,
                         probe.stock[j].speciesId)
             = classesOfPair(insights.compatibility.warnings, probe.stock[i].speciesId,
                             probe.stock[j].speciesId)

\* A bottom dweller before a predator: the bottom dweller's row has the predator
\* under caution only, the predator's row has the bottom dweller as incompatible,
\* and the one warning is a conflict
C24_Witness ==
  /\ insights.evaluated
  /\ Len(probe.stock) = 2
  /\ behaviorOf(probe.stock[1].speciesId) = "bottom_dweller"
  /\ behaviorOf(probe.stock[2].speciesId) = "predator"
  /\ "predator" \in behaviorMatrix["bottom_dweller"].cautionWith
  /\ "predator" \notin behaviorMatrix["bottom_dweller"].incompatibleWith
  /\ Len(insights.compatibility.warnings) = 1
  /\ insights.compatibility.warnings[1].message = "conflict_b_a"

\* A tank holds a task completed at hour c whose rollover day is not after MaxTime
completedAt(c) ==
  \E a \in DOMAIN aquariums :
    \E i \in DOMAIN careTasks[a] :
      /\ careTasks[a][i].status = "completed"
      /\ careTasks[a][i].lastCompletedAt = c
      /\ differenceInCalendarDays(MaxTime, careTasks[a][i].nextDueAt)
           >= careTasks[a][i].intervalDays

\* A recalculation before the rollover day keeps a completed task completed, with
\* its nextDueAt, also when the due date has passed
CompletedWaitsForRollover ==
  \A a \in DOMAIN aquariums :
    \A waiting \in {{i \in DOMAIN careTasks[a] :
                        /\ careTasks[a][i].status = "completed"
                        /\ careTasks[a][i].nextDueAt < now}} :
      waiting # {} =>
        \A S1 \in RecalculationOutcomes(getStore, a, now) :
          Len(S1.aquariumStock[a]) > 0 =>
            \A i \in waiting :
              \A new \in {taskOfType(S1.careTasks[a], careTasks[a][i].type)} :
                differenceInCalendarDays(now, careTasks[a][i].nextDueAt) < new.intervalDays
                  => /\ new.id = careTasks[a][i].id
                     /\ new.status = "completed"
                     /\ new.nextDueAt = careTasks[a][i].nextDueAt

\* A step takes a task out of completed, or moves its nextDueAt, only on or after
\* the rollover day, or by clearing the task list or deleting the tank; a new
\* completion moves nextDueAt and leaves the task completed
CompletedEndsByRollover ==
  \A a \in DOMAIN aquariums :
    \A i \in DOMAIN careTasks[a] :
      careTasks[a][i].status = "completed"
        => \/ a \notin DOMAIN aquariums'
           \/ careTasks'[a] = <<>>
           \/ /\ i \in DOMAIN careTasks'[a]
              /\ careTasks'[a][i].id = careTasks[a][i].id
              /\ \/ /\ careTasks'[a][i].status = "completed"
                    /\ careTasks'[a][i].nextDueAt = careTasks[a][i].nextDueAt
                 \/ /\ careTasks'[a][i].status = "completed"
                    /\ careTasks'[a][i].lastCompletedAt = now
                    /\ careTasks'[a][i].nextDueAt = addDays(now, careTasks[a][i].intervalDays)
                 \/ /\ careTasks'[a][i].status # "completed"
                    /\ aquariums'[a].lastCalculatedAt = now
                    /\ differenceInCalendarDays(now, careTasks[a][i].nextDueAt)
                         >= careTasks'[a][i].intervalDays

C26_CompletionTouchesOneTask ==
  \A a \in DOMAIN aquariums :
    \A i \in DOMAIN careTasks[a] :
      \A m \in {<<>>, fullMeasurement} :
        \A out \in {markTaskComplete(getStore, users[aquariums[a].userId], a,
                                       careTasks[a][i].id, m, now)} :
          \A new \in {out.S.careTasks[a][i]} :
            /\ out.S = [getStore EXCEPT !.careTasks[a][i] = new]
            /\ new = [careTasks[a][i] EXCEPT !.status = new.status,
                                             !.lastCompletedAt = new.lastCompletedAt,
                                             !.nextDueAt = new.nextDueAt,
                                             !.parameters = new.parameters]

\* The feeding task completed at the present hour in a tank last calculated at an
\* earlier one, where another task is active with its due date passed: a pass
\* would have stored that one overdue
C26_Witness ==
  \E a \in DOMAIN aquariums :
    /\ aquariums[a].lastCalculatedAt < now
    /\ \E i, j \in DOMAIN careTasks[a] :
         /\ careTasks[a][i].type = "feeding"
         /\ careTasks[a][i].status = "completed"
         /\ careTasks[a][i].lastCompletedAt = now
         /\ careTasks[a][j].status = "active"
         /\ careTasks[a][j].nextDueAt < now

\* C27: when the stock of a tank becomes empty and a species is added after that,
\* the tank gets ten new tasks: none has the id of a task the tank held, none has
\* a lastCompletedAt, every measurement value is 0, whatever status, completion
\* times and measurements the earlier tasks had.
C27_EmptyStockDropsHistory ==
  \A a \in {b \in DOMAIN aquariums : aquariumStock[b] # <<>>} :
    \A owner \in {users[aquariums[a].userId]} :
      \A before \in {getStore,
                     markTaskComplete(getStore, owner, a,
                                      taskOfType(careTasks[a], "test_ph").id,
                                      fullMeasurement, now).S} :
        \A emptied \in {removeEveryFish(before, owner, a, now)} :
          /\ emptied.careTasks[a] = <<>>
          /\ \A restocked \in {addFishToAquarium(emptied, owner, a,
                                                   [speciesId |-> "betta", quantity |-> 1],
                                                   now)} :
               /\ restocked.result = "ok"
               /\ Len(restocked.S.careTasks[a]) = Len(baseTasks)
               /\ \A j \in DOMAIN restocked.S.careTasks[a] :
                    \A new \in {restocked.S.careTasks[a][j]} :
                      /\ new.id \notin taskIds(before, a)
                      /\ new.lastCompletedAt = undefined
                      /\ new.createdAt = now
                      /\ \A n \in DOMAIN new.parameters : new.parameters[n].value = 0

\* A tank calculated at an earlier hour whose feeding task was completed: emptied
\* and restocked now, its feeding task is another one, never completed
C27_Witness ==
  \E a \in DOMAIN aquariums :
    \E i \in DOMAIN careTasks[a] :
      /\ careTasks[a][i].type = "feeding"
      /\ careTasks[a][i].status = "completed"
      /\ careTasks[a][i].createdAt < now
      /\ Len(aquariumStock[a]) = 2
      /\ \A restocked \in
             {addFishToAquarium(
                removeEveryFish(getStore, users[aquariums[a].userId], a, now),
                users[aquariums[a].userId], a,
                [speciesId |-> "guppy", quantity |-> 1], now).S} :
           /\ Len(restocked.aquariumStock[a]) = 1
           /\ taskOfType(restocked.careTasks[a], "feeding").id # careTasks[a][i].id
           /\ taskOfType(restocked.careTasks[a], "feeding").lastCompletedAt = undefined

\* C28 as stated: in every state reached through createAquarium, deleteAquarium
\* and upgradeToPremium a user owns at most subscription.aquariumLimit tanks.
C28_CountWithinLimit ==
  \A u \in DOMAIN users :
    userAquariumCount(getStore, u) <= users[u].subscription.aquariumLimit

\* C28, amended: createAquarium never takes a user's number of tanks above the
\* limit: a step that adds a tank leaves the number within the limit, and a step
\* that ends with more tanks than the limit adds none and either began with
\* more tanks than the limit or is an upgradeToPremium that lowers the limit.
C28_CreationKeepsWithinLimit ==
  [][\A u \in DOMAIN users \cap DOMAIN users' :
       \A count \in {userAquariumCount(getStore, u)},
          after \in {userAquariumCount([getStore EXCEPT !.aquariums = aquariums'], u)} :
         /\ after > count => after <= users'[u].subscription.aquariumLimit
         /\ after > users'[u].subscription.aquariumLimit
              => /\ after <= count
                 /\ \/ count > users[u].subscription.aquariumLimit
                    \/ users'[u].subscription.aquariumLimit
                         < users[u].subscription.aquariumLimit]_vars

\* A premium user whose limit was set below the number of tanks owned: more
\* tanks than the limit, and createAquarium refused
C28_Witness ==
  \E u \in DOMAIN users :
    /\ users[u].subscription.plan = "premium"
    /\ userAquariumCount(getStore, u) > users[u].subscription.aquariumLimit
    /\ createAquarium(getStore, users[u], [volumeLiters |-> 10], now).result = "throw"

\* A step that changes the status of a task is a markTaskComplete on its tank or
\* ends with the recalculation of its tank at the present clock: the stored
\* lists are what recalculateAquariumInsights makes of the task list before
\* the step and the tank and stock list the step has written
TasksChangeByMutationOnly ==
  \A a \in DOMAIN careTasks \cap DOMAIN careTasks' :
    (\E i \in DOMAIN careTasks[a], j \in DOMAIN careTasks'[a] :
       /\ careTasks'[a][j].id = careTasks[a][i].id
       /\ careTasks'[a][j].status # careTasks[a][i].status) =>
      /\ now' = now
      /\ \/ /\ a \in DOMAIN aquariums \cap DOMAIN aquariums'
            /\ aquariums'[a].lastCalculatedAt = now
            /\ \E n \in {uuid, uuid + 1} :
                 getStore' = recalculateAquariumInsights(
                               [users |-> users, aquariums |-> aquariums',
                                aquariumStock |-> aquariumStock',
                                careTasks |-> careTasks, uuid |-> n],
                               aquariums'[a], users[aquariums[a].userId], now)
         \/ \E i \in DOMAIN careTasks[a], m \in MeasurementInputs :
              getStore' = markTaskComplete(getStore, users[aquariums[a].userId], a,
                                           careTasks[a][i].id, m, now).S

\* getAquarium and listAquariums leave the store as it is and return the lists
\* as stored: an active task whose due time has passed is returned as active
ReadsChangeNothing ==
  \A u \in DOMAIN users \cup {intruder.id} :
    \A list \in {listAquariums(getStore, u)} :
      /\ list.S = getStore
      /\ \A a \in AquariumIdInputs :
           \A out \in {getAquarium(getStore, u, a)} :
             /\ out.S = getStore
             /\ out.result = "ok" =>
                  /\ a \in DOMAIN list.value
                  /\ getUserAquariums(out.S, u)[a] = list.value[a]
                  /\ list.value[a].aquarium = aquariums[a]
                  /\ list.value[a].species = aquariumStock[a]
                  /\ list.value[a].careTasks = careTasks[a]
                  /\ \A i \in DOMAIN careTasks[a] :
                       careTasks[a][i].status = "active" /\ isAfter(now, careTasks[a][i].nextDueAt)
                         => list.value[a].careTasks[i].status = "active"

\* C29: getAquarium and listAquariums leave tanks, stock lists and task lists
\* unchanged; a task list changes only in a step that recalculates its tank or
\* completes one of its tasks, so an active task whose nextDueAt has passed is
\* returned as active by every read until the next mutation of its tank.
C29_ReadsChangeNothing == []ReadsChangeNothing /\ [][TasksChangeByMutationOnly]_vars

\* A task that was due after the last recalculation of its tank and whose due
\* time has passed since: stored as active, returned as active by listAquariums
C29_Witness ==
  \E a \in DOMAIN aquariums :
    \E i \in DOMAIN careTasks[a] :
      /\ careTasks[a][i].status = "active"
      /\ isAfter(careTasks[a][i].nextDueAt, aquariums[a].lastCalculatedAt)
      /\ isAfter(now, careTasks[a][i].nextDueAt)
      /\ listAquariums(getStore, aquariums[a].userId).value[a].careTasks[i].status = "active"

\* C30: the stock-list and task-list maps have entries only for tanks that
\* exist, every stock entry and every task names the tank whose list holds it,
\* and deleteAquarium by the owner removes the tank, its stock list and its task
\* list and leaves every other tank, stock list and task list as they were.
C30_StoreIsReferentiallyIntact ==
  /\ DOMAIN aquariumStock \subseteq DOMAIN aquariums
  /\ DOMAIN careTasks \subseteq DOMAIN aquariums
  /\ \A a \in DOMAIN aquariumStock :
       \A i \in DOMAIN aquariumStock[a] : aquariumStock[a][i].aquariumId = a
  /\ \A a \in DOMAIN careTasks :
       \A i \in DOMAIN careTasks[a] : careTasks[a][i].aquariumId = a
  /\ \A a \in DOMAIN aquariums :
       \A out \in {deleteAquarium(getStore, aquariums[a].userId, a)} :
         /\ out.result = "ok"
         /\ a \notin DOMAIN out.S.aquariums
         /\ a \notin DOMAIN out.S.aquariumStock
         /\ a \notin DOMAIN out.S.careTasks
         /\ DOMAIN out.S.aquariums = DOMAIN aquariums \ {a}
         /\ DOMAIN out.S.aquariumStock = DOMAIN aquariumStock \ {a}
         /\ DOMAIN out.S.careTasks = DOMAIN careTasks \ {a}
         /\ \A b \in DOMAIN aquariums \ {a} :
              /\ out.S.aquariums[b] = aquariums[b]
              /\ out.S.aquariumStock[b] = aquariumStock[b]
              /\ out.S.careTasks[b] = careTasks[b]
         /\ out.S.users = users

\* Two tanks, one of them with stock and tasks: the owner can delete either
C30_Witness ==
  \E a, b \in DOMAIN aquariums :
    /\ a # b
    /\ aquariumStock[a] # <<>>
    /\ careTasks[a] # <<>>
    /\ deleteAquarium(getStore, aquariums[a].userId, a).result = "ok"
    /\ deleteAquarium(getStore, aquariums[b].userId, b).S.careTasks[a] = careTasks[a]

====
